---- MODULE Spec2Model ----
(***************************************************************************)
(* PlaylistEngine: the stateful timeline engine of waveform-playlist, with *)
(* the pure clip and timeline operations it composes and a mock of the     *)
(* PlayoutAdapter and of the host's requestAnimationFrame queue.           *)
(*                                                                         *)
(* Sequences are 1-based here and 0-based in the source: an index i of the *)
(* source is i + 1 here, and findIndex's -1 (not found) is 0.              *)
(* Clip and frame ids are numbers here and opaque strings / handles in the *)
(* source; only their equality is ever used.                               *)
(***************************************************************************)
EXTENDS Integers, Sequences, FiniteSets, TLC

VARIABLES
  tracks,          \* PlaylistEngine._tracks
  currentTime,     \* PlaylistEngine._currentTime, in units of 1/TimeBase s
  isPlaying,       \* PlaylistEngine._isPlaying
  selectedTrackId, \* PlaylistEngine._selectedTrackId (NoTrack: null)
  animFrameId,     \* PlaylistEngine._animFrameId (NoFrame: null)
  disposed,        \* PlaylistEngine._disposed
  listeners,       \* event names of PlaylistEngine._listeners holding a listener
  hasAdapter,      \* PlaylistEngine._adapter !== null
  hasRAF,          \* typeof requestAnimationFrame !== 'undefined' in the host
  rafQueue,        \* the host's pending frame callbacks (ids)
  pendingPlays,    \* play() calls awaiting adapter.play: each with currentTime before it
  adapterTracks,   \* mock adapter: the argument of its last setTracks call
  adapterDisposeCalls, \* mock adapter: how often dispose was called
  adapterCalls,    \* adapter methods called by the last engine call, in order
  emitted,         \* events passed to _emit by the last engine call, in order
  last,            \* the last engine call: its name and what it decided
  heap,            \* the objects of the JavaScript heap, by address
  tracksRef,       \* the address of the array PlaylistEngine._tracks refers to
  held,            \* the arrays consumers hold: setTracks arguments, snapshots
  registered,      \* the statechange listeners of _listeners, in insertion order
  emission,        \* what the last emission to them did: calls, warnings, a throw
  selectionStart,  \* EngineState.selectionStart, in seconds
  selectionEnd,    \* EngineState.selectionEnd
  loopStart,       \* EngineState.loopStart
  loopEnd,         \* EngineState.loopEnd
  isLoopEnabled,   \* EngineState.isLoopEnabled
  args,            \* the arguments of the last call, as passed
  tracksVersion,   \* EngineState.tracksVersion
  zoomLevels,      \* PlaylistEngine._zoomLevels
  zoomIndex,       \* PlaylistEngine._zoomIndex, counted from 0
  constructed,     \* the constructor returned an engine: it did not throw
  callerZoomLevels, \* the array passed as options.zoomLevels, as its caller holds it
  zoomLevelsRef,   \* the array _zoomLevels names: the engine's own or the caller's
  playout,         \* createToneAdapter: playout is not null
  playoutGeneration, \* createToneAdapter: _playoutGeneration
  toneIsPlaying,   \* createToneAdapter: _isPlaying
  startedPlayouts, \* generations of the playouts played and not yet complete
  pendingInits     \* adapter play() calls awaiting playout.init()

vars == <<tracks, currentTime, isPlaying, selectedTrackId, animFrameId, disposed,
          listeners, hasAdapter, hasRAF, rafQueue, pendingPlays, adapterTracks,
          adapterDisposeCalls, adapterCalls, emitted, last,
          heap, tracksRef, held, registered, emission,
          selectionStart, selectionEnd, loopStart, loopEnd, isLoopEnabled, args,
          tracksVersion, zoomLevels, zoomIndex, constructed,
          callerZoomLevels, zoomLevelsRef,
          playout, playoutGeneration, toneIsPlaying, startedPlayouts, pendingInits>>

\* ------------------------------------------------------------------ bounds

\* Timeline positions the model explores: 0..MaxSample.
MaxSample == 6
\* Requested move / trim deltas: -MaxDelta..MaxDelta.
MaxDelta == 2
\* The engine's sampleRate option (44100 by default); small here so that the
\* minimum duration is a few samples.
SampleRate == 20

\* ------------------------------------------------------- program constants

\* DEFAULT_MIN_DURATION_SECONDS = 0.1, as the fraction 1 / 10.
DEFAULT_MIN_DURATION_NUM == 1
DEFAULT_MIN_DURATION_DEN == 10

NoTrack == "null"
NoFrame == 0
NotFound == 0

EventNames == {"statechange", "timeupdate", "play", "pause", "stop"}

\* -------------------------------------------------------------- helpers

Max(a, b) == IF a >= b THEN a ELSE b
Min(a, b) == IF a <= b THEN a ELSE b

\* Math.floor, on the integers the model feeds it.
MathFloor(x) == x

\* Array.prototype.findIndex(c => c.id === id): the first match, NotFound if none.
FindIndexById(seq, id) ==
  IF \E i \in 1..Len(seq) : seq[i].id = id
  THEN CHOOSE i \in 1..Len(seq) :
         /\ seq[i].id = id
         /\ \A j \in 1..(i - 1) : seq[j].id # id
  ELSE NotFound

\* splice that puts the two new elements in the wrong order.
Splice2Swapped(seq, index, a, b) ==
  SubSeq(seq, 1, index - 1) \o <<b, a>> \o SubSeq(seq, index + 1, Len(seq))

\* Array.prototype.splice(index, 1, a, b) on a copy.
Splice2(seq, index, a, b) ==
  SubSeq(seq, 1, index - 1) \o <<a, b>> \o SubSeq(seq, index + 1, Len(seq))

\* sortClipsByTime of @waveform-playlist/core: a sorted copy, ascending by
\* startSample, stable.
RECURSIVE InsertByStart(_, _)
InsertByStart(sorted, c) ==
  IF sorted = <<>> THEN <<c>>
  ELSE IF Head(sorted).startSample <= c.startSample
       THEN <<Head(sorted)>> \o InsertByStart(Tail(sorted), c)
       ELSE <<c>> \o sorted

RECURSIVE sortClipsByTime(_)
sortClipsByTime(clips) ==
  IF clips = <<>> THEN <<>>
  ELSE InsertByStart(sortClipsByTime(SubSeq(clips, 1, Len(clips) - 1)), clips[Len(clips)])

\* ------------------------------------------------------- clip operations

\* constrainClipDrag without its neighbour constraints.
constrainClipDragNoNeighbours(clip, deltaSamples, sortedClips, clipIndex) ==
  Max(deltaSamples, -clip.startSample)

\* constrainClipDrag without "cannot go before sample 0".
constrainClipDragNoFloor(clip, deltaSamples, sortedClips, clipIndex) ==
  LET d2 == IF clipIndex > 1
            THEN LET prevClip == sortedClips[clipIndex - 1]
                     prevClipEnd == prevClip.startSample + prevClip.durationSamples
                 IN Max(deltaSamples, prevClipEnd - clip.startSample)
            ELSE deltaSamples
  IN IF clipIndex < Len(sortedClips)
     THEN LET nextClip == sortedClips[clipIndex + 1]
          IN Min(d2, nextClip.startSample - (clip.startSample + clip.durationSamples))
     ELSE d2

constrainClipDrag(clip, deltaSamples, sortedClips, clipIndex) ==
  LET d1 == Max(deltaSamples, -clip.startSample)
      d2 == IF clipIndex > 1
            THEN LET prevClip == sortedClips[clipIndex - 1]
                     prevClipEnd == prevClip.startSample + prevClip.durationSamples
                 IN Max(d1, prevClipEnd - clip.startSample)
            ELSE d1
      d3 == IF clipIndex < Len(sortedClips)
            THEN LET nextClip == sortedClips[clipIndex + 1]
                 IN Min(d2, nextClip.startSample - (clip.startSample + clip.durationSamples))
            ELSE d2
  IN d3

\* The left-edge constraints without "offsetSamples + delta >= 0".
constrainTrimLeftNoOffset(clip, deltaSamples, sortedClips, clipIndex, minDurationSamples) ==
  LET d1 == Max(deltaSamples, -clip.startSample)
      d3 == IF clipIndex > 1
            THEN LET prevClip == sortedClips[clipIndex - 1]
                     prevClipEnd == prevClip.startSample + prevClip.durationSamples
                 IN Max(d1, prevClipEnd - clip.startSample)
            ELSE d1
  IN Min(d3, clip.durationSamples - minDurationSamples)

constrainTrimLeft(clip, deltaSamples, sortedClips, clipIndex, minDurationSamples) ==
  LET d1 == Max(deltaSamples, -clip.startSample)
      d2 == Max(d1, -clip.offsetSamples)
      d3 == IF clipIndex > 1
            THEN LET prevClip == sortedClips[clipIndex - 1]
                     prevClipEnd == prevClip.startSample + prevClip.durationSamples
                 IN Max(d2, prevClipEnd - clip.startSample)
            ELSE d2
  IN Min(d3, clip.durationSamples - minDurationSamples)

\* The right-edge constraints without the length of the source audio.
constrainTrimRightNoSource(clip, deltaSamples, sortedClips, clipIndex, minDurationSamples) ==
  LET d1 == Max(deltaSamples, minDurationSamples - clip.durationSamples)
      d3 == IF clipIndex < Len(sortedClips)
            THEN LET nextClip == sortedClips[clipIndex + 1]
                 IN Min(d1, nextClip.startSample - clip.startSample - clip.durationSamples)
            ELSE d1
  IN d3

constrainTrimRight(clip, deltaSamples, sortedClips, clipIndex, minDurationSamples) ==
  LET d1 == Max(deltaSamples, minDurationSamples - clip.durationSamples)
      d2 == Min(d1, clip.sourceDurationSamples - clip.offsetSamples - clip.durationSamples)
      d3 == IF clipIndex < Len(sortedClips)
            THEN LET nextClip == sortedClips[clipIndex + 1]
                 IN Min(d2, nextClip.startSample - clip.startSample - clip.durationSamples)
            ELSE d2
  IN d3

constrainBoundaryTrim(clip, deltaSamples, boundary, sortedClips, clipIndex, minDurationSamples) ==
  IF boundary = "left"
  THEN constrainTrimLeft(clip, deltaSamples, sortedClips, clipIndex, minDurationSamples)
  ELSE constrainTrimRight(clip, deltaSamples, sortedClips, clipIndex, minDurationSamples)

\* canSplitAt without its minimum-duration test.
canSplitAtInterior(clip, sample, minDurationSamples) ==
  ~(sample <= clip.startSample \/ sample >= clip.startSample + clip.durationSamples)

canSplitAt(clip, sample, minDurationSamples) ==
  LET clipEnd == clip.startSample + clip.durationSamples
      leftDuration == sample - clip.startSample
      rightDuration == clipEnd - sample
  IN IF sample <= clip.startSample \/ sample >= clipEnd
     THEN FALSE
     ELSE leftDuration >= minDurationSamples /\ rightDuration >= minDurationSamples

\* createClip of @waveform-playlist/core gives each clip it builds an id of its
\* own: here the smallest ids no clip of the engine carries.
UsedClipIds(trks) ==
  UNION {{trks[i].clips[j].id : j \in 1..Len(trks[i].clips)} : i \in 1..Len(trks)}

FreshClipId(used) == CHOOSE n \in 1..(Cardinality(used) + 1) : n \notin used

createClip(id, startSample, durationSamples, offsetSamples, sampleRate, sourceDurationSamples) ==
  [id |-> id, startSample |-> startSample, durationSamples |-> durationSamples,
   offsetSamples |-> offsetSamples, sampleRate |-> sampleRate,
   sourceDurationSamples |-> sourceDurationSamples]

\* An optional argument or field: <<>> when left out (undefined), <<v>> when given.
Undefined == <<>>
Given(v) == <<v>>

\* clip.key of an optional field.
Option(clip, key) == IF key \in DOMAIN clip THEN Given(clip[key]) ELSE Undefined

\* createClip handed optional fields next to the required ones: the clip
\* carries those that are not undefined.
WithOptions(base, options) ==
  LET given == {k \in DOMAIN options : options[k] # Undefined}
  IN IF given = {} THEN base
     ELSE [k \in DOMAIN base \cup given |-> IF k \in given THEN options[k][1] ELSE base[k]]

\* clip.name ? `${clip.name}${suffix}` : undefined
SuffixedName(clip, suffix) ==
  LET name == Option(clip, "name")
  IN IF name # Undefined /\ name[1] # "" THEN Given(name[1] \o suffix) ELSE Undefined

\* The optional fields splitClip hands to createClip for its left half.
LeftOptions(clip) ==
  [gain |-> Option(clip, "gain"), name |-> SuffixedName(clip, " (1)"),
   color |-> Option(clip, "color"), fadeIn |-> Option(clip, "fadeIn"),
   audioBuffer |-> Option(clip, "audioBuffer"),
   waveformData |-> Option(clip, "waveformData")]

\* Right-half options that carry both fades over.
RightOptionsBothFades(clip) ==
  [gain |-> Option(clip, "gain"), name |-> SuffixedName(clip, " (2)"),
   color |-> Option(clip, "color"), fadeIn |-> Option(clip, "fadeIn"),
   fadeOut |-> Option(clip, "fadeOut"),
   audioBuffer |-> Option(clip, "audioBuffer"),
   waveformData |-> Option(clip, "waveformData")]

\* The optional fields splitClip hands to createClip for its right half.
RightOptions(clip) ==
  [gain |-> Option(clip, "gain"), name |-> SuffixedName(clip, " (2)"),
   color |-> Option(clip, "color"), fadeOut |-> Option(clip, "fadeOut"),
   audioBuffer |-> Option(clip, "audioBuffer"),
   waveformData |-> Option(clip, "waveformData")]

\* splitClip with the right half reading the source from the original offset.
splitClipOpSameOffset(clip, splitSample, leftId, rightId) ==
  LET leftDuration == splitSample - clip.startSample
      rightDuration == clip.durationSamples - leftDuration
  IN [left |-> createClip(leftId, clip.startSample, leftDuration, clip.offsetSamples,
                          clip.sampleRate, clip.sourceDurationSamples),
      right |-> createClip(rightId, splitSample, rightDuration, clip.offsetSamples,
                           clip.sampleRate, clip.sourceDurationSamples)]

\* splitClip of clipOperations; leftId and rightId are the ids createClip assigns.
splitClipOp(clip, splitSample, leftId, rightId) ==
  LET leftDuration == splitSample - clip.startSample
      rightDuration == clip.durationSamples - leftDuration
  IN [left |-> WithOptions(
                 createClip(leftId, clip.startSample, leftDuration, clip.offsetSamples,
                            clip.sampleRate, clip.sourceDurationSamples),
                 LeftOptions(clip)),
      right |-> WithOptions(
                  createClip(rightId, splitSample, rightDuration,
                             clip.offsetSamples + leftDuration,
                             clip.sampleRate, clip.sourceDurationSamples),
                  RightOptions(clip))]

\* Math.floor(DEFAULT_MIN_DURATION_SECONDS * this._sampleRate)
MinDuration == MathFloor((DEFAULT_MIN_DURATION_NUM * SampleRate) \div DEFAULT_MIN_DURATION_DEN)

\* --------------------------------------------------- timeline operations

\* Seconds are counted in units of 1/TimeBase s; every clip's sampleRate
\* divides TimeBase, so a clip end in samples converts exactly.
TimeBase == SampleRate

RECURSIVE MaxOver(_, _)
MaxOver(seq, acc) ==
  IF seq = <<>> THEN acc ELSE MaxOver(Tail(seq), Max(acc, Head(seq)))

ClipEndTime(clip) ==
  ((clip.startSample + clip.durationSamples) * TimeBase) \div clip.sampleRate

calculateDuration(trks) ==
  MaxOver([i \in 1..Len(trks) |->
             MaxOver([j \in 1..Len(trks[i].clips) |-> ClipEndTime(trks[i].clips[j])], 0)],
          0)

\* The requested time taken as it is.
clampSeekPositionAsRequested(time, duration) == time

clampSeekPosition(time, duration) == Max(0, Min(time, duration))

\* ------------------------------------------------------------- inputs

Clip(id, startSample, durationSamples, offsetSamples, sourceDurationSamples) ==
  createClip(id, startSample, durationSamples, offsetSamples, SampleRate,
             sourceDurationSamples)

Track(id, clips) == [id |-> id, clips |-> clips]

\* Tracks a consumer loads: clips that satisfy the clip invariants and do not
\* overlap. "t1" in two layouts (a gap between the clips and source audio left
\* to trim into; clips listed against time order, touching, one long enough
\* to split), and "t2" with one clip that is all of its source.
TrackGap == Track("t1", <<Clip(1, 0, 2, 1, 5), Clip(2, 4, 2, 0, 3)>>)
TrackTouching == Track("t1", <<Clip(1, 4, 2, 0, 2), Clip(2, 0, 4, 0, 4)>>)
TrackSmall == Track("t2", <<Clip(1, 1, 2, 0, 2)>>)
\* One clip long enough to be split.
TrackWhole == Track("t1", <<Clip(1, 0, 4, 0, 4)>>)
\* A track without clips.
TrackEmpty == Track("t3", <<>>)

\* A track setTracks accepts as it accepts any: its clip is within its source
\* and on the timeline, but shorter than the minimum duration.
TrackShort == Track("t1", <<Clip(1, 0, 1, 0, 4)>>)

TrackInputs == {TrackSmall}
TrackListInputs == {<<>>, <<TrackGap>>, <<TrackTouching>>}
TrackIdInputs == {"t1", "t2", "nonexistent"}
\* Track ids named in clip edits: the clips of "t1" are edited, next to "t2"
\* when it is loaded.
EditedTrackIdInputs == {"t1", "nonexistent"}
ClipIdInputs == 1..3
DeltaInputs == (-MaxDelta)..MaxDelta
SampleInputs == 0..MaxSample
BoundaryInputs == {"left", "right"}

\* ------------------------------------------------------- objects by reference

\* Arrays and objects are held by reference: the heap maps an address to an
\* array (of addresses: a track list or a clip list), a track object (id and
\* the address of its clip list), a clip object, or nothing.
MaxHeap == 12
Addr == 1..MaxHeap

NoClip == createClip(0, 0, 0, 0, 0, 0)
FreeObj == [kind |-> "free", elems |-> <<>>, id |-> "", clip |-> NoClip]
ArrayObj(elems) == [kind |-> "array", elems |-> elems, id |-> "", clip |-> NoClip]
TrackObj(id, clipsRef) == [kind |-> "track", elems |-> <<clipsRef>>, id |-> id, clip |-> NoClip]
ClipObj(clip) == [kind |-> "clip", elems |-> <<>>, id |-> "", clip |-> clip]

EmptyHeap == [a \in Addr |-> FreeObj]
FreeAddrs(h) == {a \in Addr : h[a].kind = "free"}

\* An object or array literal: a new object at an address not in use.
New(h, obj) ==
  LET a == CHOOSE a \in FreeAddrs(h) : \A b \in FreeAddrs(h) : a <= b
  IN [heap |-> [h EXCEPT ![a] = obj], ref |-> a]

\* No copy: the same array.
ArrayNoCopy(h, ref) == [heap |-> h, ref |-> ref]

\* [...array]: a new array of the same elements.
ArrayCopy(h, ref) == New(h, ArrayObj(h[ref].elems))

\* The track list a caller builds to pass to setTracks: every array and
\* object of it new.
RECURSIVE NewClipObjects(_, _, _)
NewClipObjects(h, clips, refs) ==
  IF clips = <<>> THEN [heap |-> h, refs |-> refs]
  ELSE LET r == New(h, ClipObj(Head(clips)))
       IN NewClipObjects(r.heap, Tail(clips), Append(refs, r.ref))

NewTrackObject(h, track) ==
  LET c == NewClipObjects(h, track.clips, <<>>)
      a == New(c.heap, ArrayObj(c.refs))
  IN New(a.heap, TrackObj(track.id, a.ref))

RECURSIVE NewTrackObjects(_, _, _)
NewTrackObjects(h, trks, refs) ==
  IF trks = <<>> THEN [heap |-> h, refs |-> refs]
  ELSE LET r == NewTrackObject(h, Head(trks))
       IN NewTrackObjects(r.heap, Tail(trks), Append(refs, r.ref))

NewTrackList(h, trks) ==
  LET t == NewTrackObjects(h, trks, <<>>)
  IN New(t.heap, ArrayObj(t.refs))

\* How many objects a track list is made of.
RECURSIVE ObjectCount(_)
ObjectCount(trks) ==
  IF trks = <<>> THEN 1
  ELSE 2 + Len(Head(trks).clips) + ObjectCount(Tail(trks))

\* this._tracks.map((t) => ({ ...t, clips: [...t.clips] })) of getState: a new
\* array of new track objects, each with a new clip list of the same clips.
RECURSIVE SnapshotTrackObjects(_, _, _)
SnapshotTrackObjects(h, trackRefs, refs) ==
  IF trackRefs = <<>> THEN [heap |-> h, refs |-> refs]
  ELSE LET t == h[Head(trackRefs)]
           c == ArrayCopy(h, t.elems[1])
           n == New(c.heap, TrackObj(t.id, c.ref))
       IN SnapshotTrackObjects(n.heap, Tail(trackRefs), Append(refs, n.ref))

getStateTracks(h, ref) ==
  LET t == SnapshotTrackObjects(h, h[ref].elems, <<>>)
  IN New(t.heap, ArrayObj(t.refs))

\* The value an array of tracks has: what reading through it yields.
Deref(h, ref) ==
  [i \in 1..Len(h[ref].elems) |->
     LET t == h[h[ref].elems[i]]
         c == h[t.elems[1]]
     IN [id |-> t.id, clips |-> [j \in 1..Len(c.elems) |-> h[c.elems[j]].clip]]]

\* Garbage collection: what neither the engine nor a consumer reaches is gone.
\* Addresses mean nothing but identity, so what is left is moved to the
\* addresses 1, 2, ... in the order the engine and the consumers reach it.
RECURSIVE Children(_, _)
Children(h, refs) ==
  IF refs = <<>> THEN <<>> ELSE h[Head(refs)].elems \o Children(h, Tail(refs))

RECURSIVE Dedup(_, _)
Dedup(refs, seen) ==
  IF refs = <<>> THEN <<>>
  ELSE IF Head(refs) \in seen THEN Dedup(Tail(refs), seen)
       ELSE <<Head(refs)>> \o Dedup(Tail(refs), seen \cup {Head(refs)})

ReachOrder(h, roots) ==
  LET l1 == Children(h, roots)
      l2 == Children(h, l1)
      l3 == Children(h, l2)
  IN Dedup(roots \o l1 \o l2 \o l3, {})

IndexOf(order, a) == CHOOSE i \in 1..Len(order) : order[i] = a

Collect(h, tRef, roots) ==
  LET order == ReachOrder(h, <<tRef>> \o [k \in 1..Len(roots) |-> roots[k].ref])
  IN [heap |-> [a \in Addr |->
                  IF a <= Len(order)
                  THEN [h[order[a]] EXCEPT
                          !.elems = [k \in 1..Len(@) |-> IndexOf(order, @[k])]]
                  ELSE FreeObj],
      tracksRef |-> IndexOf(order, tRef),
      held |-> [k \in 1..Len(roots) |->
                  [roots[k] EXCEPT !.ref = IndexOf(order, @)]]]

\* ------------------------------------------------------------- listeners

\* Listeners a consumer registers: one that throws, two that do not.
ListenerInputs == {"errorListener", "goodListener", "otherListener"}
Throws(listener) == listener = "errorListener"

\* What an emission did: the listeners it called, in order, the warnings it
\* logged, whether a throw left it, and the listener set as it left it.
NoEmission == [called |-> <<>>, warned |-> 0, thrown |-> FALSE, set |-> <<>>]

\* listener(...args) with no try / catch around it: the throw leaves _emit.
CallListenerUncaught(listener, e) ==
  LET e1 == [e EXCEPT !.called = Append(@, listener)]
  IN IF Throws(listener) THEN [e1 EXCEPT !.thrown = TRUE] ELSE e1

\* try { listener(...args) } catch (error) { console.warn(...) }
CallListener(listener, e) ==
  LET e1 == [e EXCEPT !.called = Append(@, listener)]
  IN IF Throws(listener) THEN [e1 EXCEPT !.warned = @ + 1] ELSE e1

\* Set.prototype.has / add / delete, the set kept in insertion order.
SetHas(set, x) == \E i \in 1..Len(set) : set[i] = x
SetAdd(set, x) == IF SetHas(set, x) THEN set ELSE Append(set, x)
SetDelete(set, x) == SelectSeq(set, LAMBDA y : y # x)

\* Listeners that call the engine back while they run: one takes itself off,
\* one takes goodListener off, one puts otherListener on.
ReentrantListenerInputs ==
  {"goodListener", "otherListener", "selfRemover", "remover", "adder"}

\* The listener set after the listener's own calls of on() / off().
ListenerBody(listener, set) ==
  CASE listener = "selfRemover" -> SetDelete(set, "selfRemover")
    [] listener = "remover" -> SetDelete(set, "goodListener")
    [] listener = "adder" -> SetAdd(set, "otherListener")
    [] OTHER -> set

\* An iteration over the entries the set had when the emission began.
SnapshotIteratorRest(rest, set, newSet) == rest

\* The entries an iterator of a Set has still to visit once the set has
\* changed under it: those it had to visit that are still in the set, then
\* the entries added.
SetIteratorRest(rest, set, newSet) ==
  SelectSeq(rest, LAMBDA y : SetHas(newSet, y)) \o SelectSeq(newSet, LAMBDA y : ~SetHas(set, y))

\* for (const listener of listeners) { ... } of _emit, over the set itself.
RECURSIVE EmitLoop(_, _, _)
EmitLoop(set, rest, e) ==
  IF rest = <<>> \/ e.thrown THEN [e EXCEPT !.set = set]
  ELSE LET listener == Head(rest)
           newSet == ListenerBody(listener, set)
       IN EmitLoop(newSet, SetIteratorRest(Tail(rest), set, newSet),
                   CallListener(listener, e))

emitToListeners(set) == EmitLoop(set, set, NoEmission)

\* ------------------------------------------------------------ the engine

\* The record kept of an engine call: whether it got past its lookups (for
\* dispose(): past its disposed check), the constrained delta it applied (0
\* when none; for a split, the position), whether that differs from the delta
\* asked for (for a split: whether the position was refused), the edge of a
\* trim that changed the clip, and for a rejected play() the currentTime
\* before that call.
\* ------------------------------------------------------------------ zoom

DEFAULT_SAMPLES_PER_PIXEL == 1000
DEFAULT_ZOOM_LEVELS == <<256, 512, 1024, 2048, 4096, 8192>>

\* Array.prototype.indexOf: the first index, counted from 0, that holds the
\* value; -1 if none does.
ArrayIndexOf(array, value) ==
  IF \E i \in 1..Len(array) : array[i] = value
  THEN (CHOOSE i \in 1..Len(array) :
          /\ array[i] = value
          /\ \A j \in 1..(i - 1) : array[j] # value) - 1
  ELSE -1

findClosestZoomIndex(targetSamplesPerPixel, levels) ==
  LET index == ArrayIndexOf(levels, targetSamplesPerPixel)
  IN IF index # -1 THEN index ELSE MathFloor(Len(levels) \div 2)

\* A table of any length accepted.
ZoomLevelsEmptyNever(levels) == FALSE

\* this._zoomLevels.length === 0
ZoomLevelsEmpty(levels) == Len(levels) = 0

\* _zoomIndex before the constructor assigns it.
NoZoomIndex == -1

\* An assignment of the array itself: the same array under another name.
ArrayKept(ref) == ref

\* [...array]: an array of its own with the entries of the one spread.
ArraySpread(ref) == "own"

\* The zoom fields the constructor leaves, or its throw.
constructor(options) ==
  LET levels == IF options.zoomLevels = Undefined THEN DEFAULT_ZOOM_LEVELS
                ELSE options.zoomLevels[1]
      ref == ArraySpread(IF options.zoomLevels = Undefined THEN "default" ELSE "caller")
      initialSpp == IF options.samplesPerPixel = Undefined THEN DEFAULT_SAMPLES_PER_PIXEL
                    ELSE options.samplesPerPixel[1]
  IN IF ZoomLevelsEmpty(levels)
     THEN [thrown |-> TRUE, zoomLevels |-> levels, zoomIndex |-> NoZoomIndex,
           zoomLevelsRef |-> ref]
     ELSE [thrown |-> FALSE, zoomLevels |-> levels,
           zoomIndex |-> findClosestZoomIndex(initialSpp, levels), zoomLevelsRef |-> ref]

\* getState().samplesPerPixel: this._zoomLevels[this._zoomIndex]
samplesPerPixel(levels, index) ==
  IF index + 1 \in 1..Len(levels) THEN Given(levels[index + 1]) ELSE Undefined

\* Every step past the first table entry allowed.
CanZoomInAlways(index) == TRUE

\* this._zoomIndex > 0
CanZoomIn(index) == index > 0

\* this._zoomIndex < this._zoomLevels.length - 1
CanZoomOut(index, levels) == index < Len(levels) - 1

\* new PlaylistEngine(options), as far as zoom goes.
ConstructZoom(options) ==
  LET c == constructor(options)
  IN /\ zoomLevels = c.zoomLevels
     /\ zoomIndex = c.zoomIndex
     /\ constructed = ~c.thrown
     /\ callerZoomLevels = options.zoomLevels
     /\ zoomLevelsRef = c.zoomLevelsRef
     /\ args = options.samplesPerPixel

Call(op, found, delta, clamped) ==
  [op |-> op, found |-> found, delta |-> delta, clamped |-> clamped,
   edge |-> "", timeBefore |-> 0,
   requested |-> <<>>, forwarded |-> <<>>, reported |-> <<>>, previous |-> "",
   observed |-> <<>>]

\* The fields as their initialisers leave them.
InitFields ==
  /\ tracks = <<>>
  /\ currentTime = 0
  /\ isPlaying = FALSE
  /\ selectedTrackId = NoTrack
  /\ animFrameId = NoFrame
  /\ disposed = FALSE
  /\ listeners = {}
  /\ hasAdapter \in BOOLEAN
  /\ hasRAF \in BOOLEAN
  /\ rafQueue = {}
  /\ pendingPlays = <<>>
  /\ adapterTracks = <<>>
  /\ adapterDisposeCalls = 0
  /\ adapterCalls = <<>>
  /\ emitted = <<>>
  /\ last = Call("new", TRUE, 0, FALSE)
  /\ heap = [EmptyHeap EXCEPT ![1] = ArrayObj(<<>>)]
  /\ tracksRef = 1
  /\ held = <<>>
  /\ registered = <<>>
  /\ emission = NoEmission
  /\ selectionStart = 0
  /\ selectionEnd = 0
  /\ loopStart = 0
  /\ loopEnd = 0
  /\ isLoopEnabled = FALSE
  /\ tracksVersion = 0
  /\ playout = FALSE
  /\ playoutGeneration = 0
  /\ toneIsPlaying = FALSE
  /\ startedPlayouts = {}
  /\ pendingInits = 0

NoOptions == [zoomLevels |-> Undefined, samplesPerPixel |-> Undefined]

\* new PlaylistEngine(), with or without an adapter.
Init == InitFields /\ ConstructZoom(NoOptions)

transportVars == <<currentTime, isPlaying, animFrameId, rafQueue, pendingPlays>>
configVars == <<hasAdapter, hasRAF>>
\* Who shares which object with the engine.
aliasVars == <<heap, tracksRef, held>>
\* What the track, clip and playback calls leave alone.
\* The listeners of one event and what an emission did with them.
listenerVars == <<registered, emission>>
\* The selection and the loop region.
rangeVars == <<selectionStart, selectionEnd, loopStart, loopEnd, isLoopEnabled>>
\* The zoom table and the position in it.
zoomVars == <<zoomLevels, zoomIndex, constructed, callerZoomLevels, zoomLevelsRef>>
toneVars == <<playout, playoutGeneration, toneIsPlaying, startedPlayouts, pendingInits>>
viewVars == <<rangeVars, args, tracksVersion, zoomVars, toneVars>>
otherVars == <<aliasVars, listenerVars, viewVars>>

\* An early return that still emits statechange.
ReturnEmitting(op, found, clamped) ==
  /\ last' = Call(op, found, 0, clamped)
  /\ emitted' = <<"statechange">>
  /\ adapterCalls' = <<>>
  /\ UNCHANGED <<tracks, selectedTrackId, adapterTracks>>

\* What a call that returns early (a bare "return;") leaves behind: no state
\* changed, nothing emitted, no adapter method called.
Return(op, found, clamped) ==
  /\ last' = Call(op, found, 0, clamped)
  /\ emitted' = <<>>
  /\ adapterCalls' = <<>>
  /\ UNCHANGED <<tracks, selectedTrackId, adapterTracks>>

\* this._adapter?.setTracks(this._tracks)
AdapterSetTracks(trks) ==
  /\ adapterTracks' = IF hasAdapter THEN trks ELSE adapterTracks
  /\ adapterCalls' = IF hasAdapter THEN <<"setTracks">> ELSE <<>>

\* _emitStateChange()
EmitStateChange == emitted' = <<"statechange">>

setTracks(newTracks) ==
  /\ tracks' = newTracks
  /\ AdapterSetTracks(newTracks)
  /\ EmitStateChange
  /\ last' = Call("setTracks", TRUE, 0, FALSE)
  /\ UNCHANGED <<selectedTrackId, disposed, listeners, adapterDisposeCalls>>
  /\ UNCHANGED <<transportVars, configVars>>

addTrack(track) ==
  /\ tracks' = Append(tracks, track)
  /\ AdapterSetTracks(tracks')
  /\ EmitStateChange
  /\ last' = Call("addTrack", TRUE, 0, FALSE)
  /\ UNCHANGED <<selectedTrackId, disposed, listeners, adapterDisposeCalls>>
  /\ UNCHANGED <<transportVars, configVars>>

\* removeTrack that leaves the selection on the removed track.
removeTrackKeepingSelection(trackId) ==
  /\ IF ~(\E i \in 1..Len(tracks) : tracks[i].id = trackId)
     THEN Return("removeTrack", FALSE, FALSE)
     ELSE /\ tracks' = SelectSeq(tracks, LAMBDA t : t.id # trackId)
          /\ selectedTrackId' = selectedTrackId
          /\ AdapterSetTracks(tracks')
          /\ EmitStateChange
          /\ last' = Call("removeTrack", TRUE, 0, FALSE)
  /\ UNCHANGED <<disposed, listeners, adapterDisposeCalls>>
  /\ UNCHANGED <<transportVars, configVars>>

removeTrack(trackId) ==
  /\ IF ~(\E i \in 1..Len(tracks) : tracks[i].id = trackId)
     THEN Return("removeTrack", FALSE, FALSE)
     ELSE /\ tracks' = SelectSeq(tracks, LAMBDA t : t.id # trackId)
          /\ selectedTrackId' = IF selectedTrackId = trackId THEN NoTrack
                                 ELSE selectedTrackId
          /\ AdapterSetTracks(tracks')
          /\ EmitStateChange
          /\ last' = Call("removeTrack", TRUE, 0, FALSE)
  /\ UNCHANGED <<disposed, listeners, adapterDisposeCalls>>
  /\ UNCHANGED <<transportVars, configVars>>

selectTrack(trackId) ==
  /\ selectedTrackId' = trackId
  /\ EmitStateChange
  /\ adapterCalls' = <<>>
  /\ last' = Call("selectTrack", TRUE, 0, FALSE)
  /\ UNCHANGED <<tracks, disposed, listeners, adapterTracks, adapterDisposeCalls>>
  /\ UNCHANGED <<transportVars, configVars>>

\* No zero-delta guard.
IsZeroDeltaNever(delta) == FALSE

\* if (constrainedDelta === 0) return;
IsZeroDelta(delta) == delta = 0

\* this._tracks.map(t => t.id !== trackId ? t : { ...t, clips: newClips })
MapTrack(trackId, newClips) ==
  [i \in 1..Len(tracks) |->
     IF tracks[i].id # trackId THEN tracks[i]
     ELSE [tracks[i] EXCEPT !.clips = newClips]]

moveClip(trackId, clipId, deltaSamples) ==
  LET trackIndex == FindIndexById(tracks, trackId) IN
  /\ IF trackIndex = NotFound THEN Return("moveClip", FALSE, FALSE)
     ELSE
     LET track == tracks[trackIndex]
         clipIndex == FindIndexById(track.clips, clipId)
     IN
     IF clipIndex = NotFound THEN Return("moveClip", FALSE, FALSE)
     ELSE
     LET clip == track.clips[clipIndex]
         sortedClips == sortClipsByTime(track.clips)
         sortedIndex == FindIndexById(sortedClips, clipId)
         constrainedDelta == constrainClipDrag(clip, deltaSamples, sortedClips, sortedIndex)
     IN
     IF IsZeroDelta(constrainedDelta)
     THEN Return("moveClip", TRUE, deltaSamples # constrainedDelta)
     ELSE
       /\ tracks' = MapTrack(trackId,
            [i \in 1..Len(track.clips) |->
               IF i = clipIndex
               THEN [track.clips[i] EXCEPT
                       !.startSample = MathFloor(track.clips[i].startSample + constrainedDelta)]
               ELSE track.clips[i]])
       /\ EmitStateChange
       /\ adapterCalls' = <<>>
       /\ last' = Call("moveClip", TRUE, constrainedDelta, deltaSamples # constrainedDelta)
       /\ UNCHANGED <<selectedTrackId, adapterTracks>>
  /\ UNCHANGED <<disposed, listeners, adapterDisposeCalls>>
  /\ UNCHANGED <<transportVars, configVars>>

splitClip(trackId, clipId, atSample) ==
  LET trackIndex == FindIndexById(tracks, trackId) IN
  /\ IF trackIndex = NotFound THEN Return("splitClip", FALSE, FALSE)
     ELSE
     LET track == tracks[trackIndex]
         clipIndex == FindIndexById(track.clips, clipId)
     IN
     IF clipIndex = NotFound THEN Return("splitClip", FALSE, FALSE)
     ELSE
     LET clip == track.clips[clipIndex]
         minDuration == MinDuration
     IN
     IF ~canSplitAt(clip, atSample, minDuration) THEN Return("splitClip", TRUE, TRUE)
     ELSE
     LET leftId == FreshClipId(UsedClipIds(tracks))
         rightId == FreshClipId(UsedClipIds(tracks) \cup {leftId})
         halves == splitClipOp(clip, atSample, leftId, rightId)
     IN
       /\ tracks' = MapTrack(trackId,
                              Splice2(track.clips, clipIndex, halves.left, halves.right))
       /\ EmitStateChange
       /\ adapterCalls' = <<>>
       /\ last' = Call("splitClip", TRUE, atSample, FALSE)
       /\ UNCHANGED <<selectedTrackId, adapterTracks>>
  /\ UNCHANGED <<disposed, listeners, adapterDisposeCalls>>
  /\ UNCHANGED <<transportVars, configVars>>

\* A trimmed clip whose left edge moved without its offset into the source.
TrimmedClipKeepingOffset(c, boundary, constrained) ==
  IF boundary = "left"
  THEN [c EXCEPT !.startSample = c.startSample + constrained,
                 !.durationSamples = c.durationSamples - constrained]
  ELSE [c EXCEPT !.durationSamples = c.durationSamples + constrained]

\* The clip trimClip puts in place of the trimmed one.
TrimmedClip(c, boundary, constrained) ==
  IF boundary = "left"
  THEN [c EXCEPT !.startSample = c.startSample + constrained,
                 !.offsetSamples = c.offsetSamples + constrained,
                 !.durationSamples = c.durationSamples - constrained]
  ELSE [c EXCEPT !.durationSamples = c.durationSamples + constrained]

trimClip(trackId, clipId, boundary, deltaSamples) ==
  LET trackIndex == FindIndexById(tracks, trackId) IN
  /\ IF trackIndex = NotFound THEN Return("trimClip", FALSE, FALSE)
     ELSE
     LET track == tracks[trackIndex]
         clipIndex == FindIndexById(track.clips, clipId)
     IN
     IF clipIndex = NotFound THEN Return("trimClip", FALSE, FALSE)
     ELSE
     LET clip == track.clips[clipIndex]
         sortedClips == sortClipsByTime(track.clips)
         sortedIndex == FindIndexById(sortedClips, clipId)
         minDuration == MinDuration
         constrained == constrainBoundaryTrim(clip, deltaSamples, boundary, sortedClips,
                                              sortedIndex, minDuration)
     IN
     IF IsZeroDelta(constrained)
     THEN Return("trimClip", TRUE, deltaSamples # constrained)
     ELSE
       /\ tracks' = MapTrack(trackId,
            [i \in 1..Len(track.clips) |->
               IF i # clipIndex THEN track.clips[i]
               ELSE TrimmedClip(track.clips[i], boundary, constrained)])
       /\ EmitStateChange
       /\ adapterCalls' = <<>>
       /\ last' = [Call("trimClip", TRUE, constrained, deltaSamples # constrained)
                     EXCEPT !.edge = boundary]
       /\ UNCHANGED <<selectedTrackId, adapterTracks>>
  /\ UNCHANGED <<disposed, listeners, adapterDisposeCalls>>
  /\ UNCHANGED <<transportVars, configVars>>

\* ------------------------------------------------------------ transport

\* play(), pause(), stop(), dispose() and the frame callback call one another's
\* code (a timeupdate listener may call pause() inside a frame), so each is
\* written as a function of the transport state, a record of the fields below,
\* and an action commits the result.
Cur ==
  [currentTime |-> currentTime, isPlaying |-> isPlaying, animFrameId |-> animFrameId,
   disposed |-> disposed, listeners |-> listeners, rafQueue |-> rafQueue,
   adapterDisposeCalls |-> adapterDisposeCalls,
   emitted |-> <<>>, adapterCalls |-> <<>>, adapterArgs |-> <<>>, adapterReturns |-> <<>>,
   observed |-> <<>>]

Commit(T) ==
  /\ currentTime' = T.currentTime
  /\ isPlaying' = T.isPlaying
  /\ animFrameId' = T.animFrameId
  /\ disposed' = T.disposed
  /\ listeners' = T.listeners
  /\ rafQueue' = T.rafQueue
  /\ adapterDisposeCalls' = T.adapterDisposeCalls
  /\ emitted' = T.emitted
  /\ adapterCalls' = T.adapterCalls

\* _emit(event); observed is the isPlaying a listener reads when it is called.
Emit(T, event) ==
  [T EXCEPT !.emitted = Append(@, event), !.observed = Append(@, T.isPlaying)]

\* this._adapter?.method(...)
AdapterCall(T, method) ==
  IF hasAdapter THEN [T EXCEPT !.adapterCalls = Append(@, method)] ELSE T

\* this._adapter?.method(arg): the call and the argument it is handed.
AdapterCallWith(T, method, arg) ==
  IF hasAdapter
  THEN [T EXCEPT !.adapterCalls = Append(@, method), !.adapterArgs = Append(@, arg)]
  ELSE T

\* The adapter asked for its position and the answer dropped.
AdapterGetCurrentTimeDropped(T, adapterTime) ==
  [AdapterCall(T, "getCurrentTime") EXCEPT !.adapterReturns = Append(@, adapterTime)]

\* this._currentTime = this._adapter.getCurrentTime()
AdapterGetCurrentTime(T, adapterTime) ==
  [AdapterCall(T, "getCurrentTime") EXCEPT
     !.currentTime = adapterTime, !.adapterReturns = Append(@, adapterTime)]

\* The handle requestAnimationFrame returns: one no pending or remembered frame has.
FreshFrameId(inUse) == CHOOSE n \in 1..(Cardinality(inUse) + 1) : n \notin inUse

stopTimeUpdateLoop(T) ==
  IF T.animFrameId # NoFrame /\ hasRAF
  THEN [T EXCEPT !.rafQueue = @ \ {T.animFrameId}, !.animFrameId = NoFrame]
  ELSE T

\* this._animFrameId = requestAnimationFrame(tick); running is the frame whose
\* callback is executing (NoFrame outside a frame).
RequestFrame(T, running) ==
  LET id == FreshFrameId((T.rafQueue \cup {T.animFrameId, running}) \ {NoFrame})
  IN [T EXCEPT !.rafQueue = @ \cup {id}, !.animFrameId = id]

\* A loop started without cancelling the frame of the loop before it.
startTimeUpdateLoopWithoutStop(T) ==
  IF ~hasRAF THEN T
  ELSE RequestFrame(T, NoFrame)

startTimeUpdateLoop(T) ==
  IF ~hasRAF THEN T
  ELSE RequestFrame(stopTimeUpdateLoop(T), NoFrame)

\* play() up to its await: the clamp of startTime and the call of adapter.play.

\* play() marking the engine as playing before it awaits the adapter.
playBeforeAwaitOptimistic(T, startTime) ==
  LET T1 == IF startTime # Undefined
            THEN [T EXCEPT !.currentTime =
                    clampSeekPosition(startTime[1], calculateDuration(tracks))]
            ELSE T
  IN AdapterCallWith([T1 EXCEPT !.isPlaying = TRUE], "play", T1.currentTime)

playBeforeAwait(T, startTime) ==
  LET T1 == IF startTime # Undefined
            THEN [T EXCEPT !.currentTime =
                    clampSeekPosition(startTime[1], calculateDuration(tracks))]
            ELSE T
  IN AdapterCallWith(T1, "play", T1.currentTime)

\* play() doing nothing when no adapter is attached.
playAfterAwaitNeedsAdapter(T) ==
  IF hasAdapter
  THEN Emit(Emit([startTimeUpdateLoop(T) EXCEPT !.isPlaying = TRUE], "play"), "statechange")
  ELSE T

\* play() leaving isPlaying as it finds it after the await.
playAfterAwaitKeepingState(T) ==
  LET T1 == IF hasAdapter THEN startTimeUpdateLoop(T) ELSE T
  IN Emit(Emit(T1, "play"), "statechange")

\* play() after the await (at once without an adapter).
playAfterAwait(T) ==
  LET T1 == IF hasAdapter THEN startTimeUpdateLoop(T) ELSE T
      T2 == [T1 EXCEPT !.isPlaying = TRUE]
  IN Emit(Emit(T2, "play"), "statechange")

\* pause() that emits pause before it clears isPlaying.
pauseEmittingFirst(T, adapterTime) ==
  LET T1 == Emit(T, "pause")
      T2 == AdapterCall(stopTimeUpdateLoop([T1 EXCEPT !.isPlaying = FALSE]), "pause")
      T3 == IF hasAdapter THEN AdapterGetCurrentTime(T2, adapterTime) ELSE T2
  IN Emit(T3, "statechange")

pause(T, adapterTime) ==
  LET T1 == [T EXCEPT !.isPlaying = FALSE]
      T2 == AdapterCall(stopTimeUpdateLoop(T1), "pause")
      T3 == IF hasAdapter THEN AdapterGetCurrentTime(T2, adapterTime) ELSE T2
  IN Emit(Emit(T3, "pause"), "statechange")

\* stop() that leaves the playback position where it is.
stopWithoutReset(T) ==
  LET T1 == [T EXCEPT !.isPlaying = FALSE]
      T2 == AdapterCall(stopTimeUpdateLoop(T1), "stop")
  IN Emit(Emit(T2, "stop"), "statechange")

stop(T) ==
  LET T1 == [T EXCEPT !.isPlaying = FALSE, !.currentTime = 0]
      T2 == AdapterCall(stopTimeUpdateLoop(T1), "stop")
  IN Emit(Emit(T2, "stop"), "statechange")

seek(T, time) ==
  LET T1 == [T EXCEPT !.currentTime = clampSeekPosition(time, calculateDuration(tracks))]
  IN Emit(AdapterCallWith(T1, "seek", T1.currentTime), "statechange")

\* No disposed guard.
AlreadyDisposedNever(T) == FALSE

\* if (this._disposed) return;
AlreadyDisposed(T) == T.disposed

dispose(T) ==
  IF AlreadyDisposed(T) THEN T
  ELSE LET T1 == stopTimeUpdateLoop([T EXCEPT !.disposed = TRUE])
           T2 == IF hasAdapter
                 THEN [AdapterCall(T1, "dispose") EXCEPT !.adapterDisposeCalls = @ + 1]
                 ELSE T1
       IN [T2 EXCEPT !.listeners = {}]

\* What a timeupdate listener does with the engine while it runs.
ReactionInputs == {"none", "pause", "stop", "dispose"}

React(T, reaction, adapterTime) ==
  CASE reaction = "pause" -> pause(T, adapterTime)
    [] reaction = "stop" -> stop(T)
    [] reaction = "dispose" -> dispose(T)
    [] OTHER -> T

\* The frame guard without its isPlaying test.
TickReturnsEarlyIfDisposed(T) == T.disposed

\* if (this._disposed || !this._isPlaying) return;
TickReturnsEarly(T) == T.disposed \/ ~T.isPlaying

\* A frame callback that announces a state change with every time update.
tickEmittingStateChange(T, id, adapterTime, reaction, reactionTime) ==
  LET T0 == [T EXCEPT !.rafQueue = @ \ {id}]
  IN IF T0.disposed \/ ~T0.isPlaying THEN T0
     ELSE LET T1 == IF hasAdapter
                    THEN Emit(Emit([AdapterCall(T0, "getCurrentTime") EXCEPT
                                      !.currentTime = adapterTime], "timeupdate"),
                              "statechange")
                    ELSE T0
          IN RequestFrame(T1, id)

\* tick, the frame callback of _startTimeUpdateLoop, run by the host for frame id.
tick(T, id, adapterTime, reaction, reactionTime) ==
  LET T0 == [T EXCEPT !.rafQueue = @ \ {id}]
  IN IF TickReturnsEarly(T0) THEN T0
     ELSE LET T1 == IF hasAdapter
                    THEN Emit([AdapterCall(T0, "getCurrentTime") EXCEPT
                                 !.currentTime = adapterTime], "timeupdate")
                    ELSE T0
              T2 == IF hasAdapter /\ "timeupdate" \in T1.listeners
                    THEN React(T1, reaction, reactionTime)
                    ELSE T1
          IN RequestFrame(T2, id)

\* -------------------------------------------------------- transport calls

\* Requested times: before the start, inside the timeline, past its end.
TimeInputs == {-1, 1, MaxSample + 1}
\* Positions the adapter reports.
MaxAdapterTime == 2
AdapterTimeInputs == 1..MaxAdapterTime
\* play() calls that may await the adapter at once.
MaxPendingPlays == 2

RemoveAt(seq, i) == SubSeq(seq, 1, i - 1) \o SubSeq(seq, i + 1, Len(seq))

editVars == <<tracks, selectedTrackId, adapterTracks>>

PlayCall ==
  \E startTime \in {Given(t) : t \in TimeInputs} \cup {Undefined} :
    IF hasAdapter
    THEN LET T == playBeforeAwait(Cur, startTime)
         IN /\ Len(pendingPlays) < MaxPendingPlays
            /\ Commit(T)
            /\ pendingPlays' = Append(pendingPlays, [timeBefore |-> currentTime])
            /\ last' = [Call("play:awaiting", TRUE, 0, FALSE) EXCEPT
                          !.requested = startTime, !.forwarded = T.adapterArgs]
            /\ UNCHANGED <<editVars, configVars, otherVars>>
    ELSE LET T == playAfterAwait(playBeforeAwait(Cur, startTime))
         IN /\ Commit(T)
            /\ last' = [Call("play:resolved", TRUE, 0, FALSE) EXCEPT
                          !.requested = startTime, !.forwarded = T.adapterArgs,
                          !.observed = T.observed]
            /\ UNCHANGED <<pendingPlays, editVars, configVars, otherVars>>

\* adapter.play's promise resolves: the rest of play() runs.
PlayResolve ==
  \E i \in 1..Len(pendingPlays) :
    LET T == playAfterAwait(Cur)
    IN
    /\ Commit(T)
    /\ pendingPlays' = RemoveAt(pendingPlays, i)
    /\ last' = [Call("play:resolved", TRUE, 0, FALSE) EXCEPT
                  !.previous = last.op, !.observed = T.observed]
    /\ UNCHANGED <<editVars, configVars, otherVars>>

\* adapter.play's promise rejects: the await throws and play() rejects with it.
PlayReject ==
  \E i \in 1..Len(pendingPlays) :
    /\ Commit(Cur)
    /\ pendingPlays' = RemoveAt(pendingPlays, i)
    /\ last' = [Call("play:rejected", TRUE, 0, FALSE) EXCEPT
                  !.timeBefore = pendingPlays[i].timeBefore]
    /\ UNCHANGED <<editVars, configVars, otherVars>>

PauseCall ==
  \E adapterTime \in AdapterTimeInputs :
    LET T == pause(Cur, adapterTime)
    IN
    /\ Commit(T)
    /\ last' = [Call("pause", TRUE, 0, FALSE) EXCEPT
                  !.reported = T.adapterReturns, !.observed = T.observed]
    /\ UNCHANGED <<pendingPlays, editVars, configVars, otherVars>>

StopCall ==
  LET T == stop(Cur)
  IN
  /\ Commit(T)
  /\ last' = [Call("stop", TRUE, 0, FALSE) EXCEPT
                !.timeBefore = currentTime, !.observed = T.observed]
  /\ UNCHANGED <<pendingPlays, editVars, configVars, otherVars>>

SeekCall ==
  \E time \in TimeInputs :
    LET T == seek(Cur, time)
    IN
    /\ Commit(T)
    /\ last' = [Call("seek", TRUE, 0, FALSE) EXCEPT
                  !.requested = Given(time), !.forwarded = T.adapterArgs]
    /\ UNCHANGED <<pendingPlays, editVars, configVars, otherVars>>

\* The model follows an engine through MaxDisposeCalls calls of dispose().
MaxDisposeCalls == 3

DisposeCall ==
  /\ adapterDisposeCalls < MaxDisposeCalls
  /\ Commit(dispose(Cur))
  /\ last' = Call("dispose", ~disposed, 0, FALSE)
  /\ UNCHANGED <<pendingPlays, editVars, configVars, otherVars>>

\* The host runs a pending frame callback.
Tick ==
  \E id \in rafQueue, adapterTime \in AdapterTimeInputs,
     reaction \in ReactionInputs, reactionTime \in AdapterTimeInputs :
    /\ Commit(tick(Cur, id, adapterTime, reaction, reactionTime))
    /\ last' = Call("tick", TRUE, 0, FALSE)
    /\ UNCHANGED <<pendingPlays, editVars, configVars, otherVars>>

\* The adapter finishes playback on its own, at endTime or at the end of the
\* timeline. PlayoutAdapter has no completion callback and the engine never
\* calls adapter.isPlaying(), so no engine code runs.
AdapterFinished ==
  /\ hasAdapter /\ isPlaying /\ ~disposed
  /\ emitted' = <<>>
  /\ adapterCalls' = <<>>
  /\ last' = Call("adapter:finished", TRUE, 0, FALSE)
  /\ UNCHANGED <<currentTime, isPlaying, animFrameId, disposed, listeners, rafQueue,
                 adapterDisposeCalls, pendingPlays, editVars, configVars, otherVars>>

\* on(event, listener) / off(event, listener) of the one observer.
On(event) ==
  /\ listeners' = listeners \cup {event}
  /\ emitted' = <<>>
  /\ adapterCalls' = <<>>
  /\ last' = Call("on", TRUE, 0, FALSE)
  /\ UNCHANGED <<currentTime, isPlaying, animFrameId, disposed, rafQueue,
                 adapterDisposeCalls, pendingPlays, editVars, configVars, otherVars>>

Off(event) ==
  /\ listeners' = listeners \ {event}
  /\ emitted' = <<>>
  /\ adapterCalls' = <<>>
  /\ last' = Call("off", TRUE, 0, FALSE)
  /\ UNCHANGED <<currentTime, isPlaying, animFrameId, disposed, rafQueue,
                 adapterDisposeCalls, pendingPlays, editVars, configVars, otherVars>>

\* --------------------------------------------------------- specifications

\* A consumer loads tracks with ids the engine does not hold yet.
AddTrackCall ==
  \E track \in TrackInputs :
    /\ \A i \in 1..Len(tracks) : tracks[i].id # track.id
    /\ addTrack(track)
    /\ UNCHANGED otherVars

SetTracksCall ==
  \E newTracks \in TrackListInputs : setTracks(newTracks) /\ UNCHANGED otherVars

RemoveTrackCall ==
  \E trackId \in TrackIdInputs : removeTrack(trackId) /\ UNCHANGED otherVars

\* The model follows a clip only up to MaxSample on the timeline.
MoveClipCall ==
  \E trackId \in EditedTrackIdInputs, clipId \in ClipIdInputs, deltaSamples \in DeltaInputs :
    /\ moveClip(trackId, clipId, deltaSamples)
    /\ \A i \in 1..Len(tracks') : \A j \in 1..Len(tracks'[i].clips) :
         tracks'[i].clips[j].startSample + tracks'[i].clips[j].durationSamples <= MaxSample
    /\ UNCHANGED otherVars

TrimClipCall ==
  \E trackId \in EditedTrackIdInputs, clipId \in ClipIdInputs,
     boundary \in BoundaryInputs, deltaSamples \in DeltaInputs :
    trimClip(trackId, clipId, boundary, deltaSamples) /\ UNCHANGED otherVars

SplitClipCall ==
  \E trackId \in EditedTrackIdInputs, clipId \in ClipIdInputs, atSample \in SampleInputs :
    splitClip(trackId, clipId, atSample) /\ UNCHANGED otherVars

\* Track and clip editing: the calls that read or write the track list.
InitEdit == Init /\ ~hasAdapter /\ ~hasRAF

NextEdit ==
  \/ SetTracksCall
  \/ AddTrackCall
  \/ RemoveTrackCall
  \/ MoveClipCall
  \/ TrimClipCall
  \/ SplitClipCall

SpecEdit == InitEdit /\ [][NextEdit]_vars

\* A track whose clip was recorded at twice the engine's sample rate.
TrackOtherRate == Track("t1", <<createClip(1, 0, 5, 0, 2 * SampleRate, 5)>>)

NextRates ==
  \/ \E newTracks \in {<<>>, <<TrackOtherRate>>} : setTracks(newTracks) /\ UNCHANGED otherVars
  \/ TrimClipCall
  \/ SplitClipCall

\* Editing a clip whose sampleRate is not the engine's.
SpecRates == InitEdit /\ [][NextRates]_vars

\* Clips with optional fields: a name, a colour, a gain (in hundredths), both
\* fades and references to decoded audio and waveform data; the same with an
\* empty name and no fade-out; and a clip with none of them.
FadeIn == [duration |-> 5, type |-> "linear"]
FadeOut == [duration |-> 3, type |-> "exponential"]

ClipVocals ==
  [id |-> 1, startSample |-> 0, durationSamples |-> 5, offsetSamples |-> 0,
   sampleRate |-> SampleRate, sourceDurationSamples |-> 5,
   gain |-> 50, name |-> "Vocals", color |-> "red", fadeIn |-> FadeIn,
   fadeOut |-> FadeOut, audioBuffer |-> "buffer1", waveformData |-> "peaks1"]

ClipEmptyName ==
  [id |-> 1, startSample |-> 0, durationSamples |-> 5, offsetSamples |-> 0,
   sampleRate |-> SampleRate, sourceDurationSamples |-> 5,
   gain |-> 100, name |-> "", fadeIn |-> FadeIn, audioBuffer |-> "buffer2"]

DecoratedTrackLists ==
  {<<>>, <<Track("t1", <<ClipVocals>>)>>, <<Track("t1", <<ClipEmptyName>>)>>, <<TrackWhole>>}

NextSplit ==
  \/ \E newTracks \in DecoratedTrackLists : setTracks(newTracks) /\ UNCHANGED otherVars
  \/ TrimClipCall
  \/ SplitClipCall

\* Splitting clips that carry optional fields.
SpecSplit == InitEdit /\ [][NextSplit]_vars

\* Editing with an adapter attached, which is handed track lists: one track
\* at a time is loaded and edited.
InitSync == Init /\ hasAdapter /\ ~hasRAF

NextSync ==
  \/ \E newTracks \in {<<>>, <<TrackGap>>} : setTracks(newTracks) /\ UNCHANGED otherVars
  \/ (tracks = <<>> /\ AddTrackCall)
  \/ RemoveTrackCall
  \/ MoveClipCall
  \/ TrimClipCall
  \/ SplitClipCall

SpecSync == InitSync /\ [][NextSync]_vars

\* Editing of track lists that nothing validated: clips of any duration.
NextShortClip ==
  \/ \E newTracks \in {<<TrackShort>>, <<TrackGap>>} : setTracks(newTracks) /\ UNCHANGED otherVars
  \/ MoveClipCall
  \/ TrimClipCall
  \/ SplitClipCall

SpecShortClip == InitEdit /\ [][NextShortClip]_vars

\* Transport: playback calls, the frame loop and dispose, on an engine with or
\* without an adapter, in a host with or without requestAnimationFrame.
NextTransport ==
  \/ \E newTracks \in {<<>>, <<TrackSmall>>} : setTracks(newTracks) /\ UNCHANGED otherVars
  \/ PlayCall
  \/ PlayResolve
  \/ PlayReject
  \/ PauseCall
  \/ StopCall
  \/ SeekCall
  \/ DisposeCall
  \/ Tick
  \/ On("timeupdate")
  \/ Off("timeupdate")

SpecTransport == Init /\ [][NextTransport]_vars

\* Playback: the transport calls and the frame loop while the adapter may
\* finish on its own.
NextPlayback ==
  \/ PlayCall
  \/ PlayResolve
  \/ PauseCall
  \/ StopCall
  \/ SeekCall
  \/ Tick
  \/ AdapterFinished
  \/ On("timeupdate")

SpecPlayback == Init /\ [][NextPlayback]_vars

\* ------------------------------------------------- consumers and references

\* Arrays consumers hold at once.
MaxHeld == 2

\* What a consumer does to a track list it holds: empties the array
\* (tracks.length = 0), renames its first track (tracks[0].id = ...), empties
\* that track's clip list (tracks[0].clips.length = 0), or moves its first
\* clip (tracks[0].clips[0].startSample = ...).
MutationInputs == {"array", "track", "clips", "clip"}

FirstTrack(h, ref) == h[ref].elems[1]
FirstClips(h, ref) == h[FirstTrack(h, ref)].elems[1]
FirstClip(h, ref) == h[FirstClips(h, ref)].elems[1]

CanMutate(h, ref, what) ==
  /\ h[ref].elems # <<>>
  /\ what = "clip" => h[FirstClips(h, ref)].elems # <<>>

MutateObject(h, ref, what) ==
  CASE what = "array" -> [h EXCEPT ![ref].elems = <<>>]
    [] what = "track" -> [h EXCEPT ![FirstTrack(h, ref)].id = "renamed"]
    [] what = "clips" -> [h EXCEPT ![FirstClips(h, ref)].elems = <<>>]
    [] what = "clip" ->
         [h EXCEPT ![FirstClip(h, ref)].clip.startSample = IF @ = 0 THEN 1 ELSE 0]

\* The heap, the engine's array and the consumers' arrays after a step.
Settle(h, tRef, roots) ==
  LET c == Collect(h, tRef, roots)
  IN heap' = c.heap /\ tracksRef' = c.tracksRef /\ held' = c.held

engineVars == <<currentTime, isPlaying, selectedTrackId, animFrameId, disposed,
                listeners, hasAdapter, hasRAF, rafQueue, pendingPlays,
                adapterTracks, adapterDisposeCalls>>

\* setTracks(tracks) with a track list the caller has just built and keeps;
\* a statechange listener keeps the snapshot it is passed.
SetTracksByRef ==
  \E newTracks \in {<<>>, <<TrackSmall>>} :
    LET input == NewTrackList(heap, newTracks)
        copy == ArrayCopy(input.heap, input.ref)
        snapshot == getStateTracks(copy.heap, copy.ref)
        listening == "statechange" \in listeners
        roots == Append(held, [kind |-> "input", ref |-> input.ref])
                   \o (IF listening THEN <<[kind |-> "snapshot", ref |-> snapshot.ref]>>
                       ELSE <<>>)
    IN /\ Cardinality(FreeAddrs(heap)) >= 2 * ObjectCount(newTracks) + 1
       /\ Len(roots) <= MaxHeld
       /\ setTracks(newTracks)
       /\ Settle(snapshot.heap, copy.ref, roots)
       /\ UNCHANGED <<listenerVars, viewVars>>

\* getState(), the caller keeping the snapshot.
GetStateCall ==
  LET snapshot == getStateTracks(heap, tracksRef)
  IN /\ Len(held) < MaxHeld
     /\ Cardinality(FreeAddrs(heap)) >= ObjectCount(tracks)
     /\ Settle(snapshot.heap, tracksRef,
               Append(held, [kind |-> "snapshot", ref |-> snapshot.ref]))
     /\ last' = Call("getState", TRUE, 0, FALSE)
     /\ emitted' = <<>>
     /\ adapterCalls' = <<>>
     /\ UNCHANGED <<tracks, engineVars, listenerVars, viewVars>>

\* A consumer writes to the k-th track list held; the engine's tracks are
\* what its own array then reads as.
Mutate ==
  \E k \in 1..Len(held), what \in MutationInputs :
    /\ CanMutate(heap, held[k].ref, what)
    /\ Settle(MutateObject(heap, held[k].ref, what), tracksRef, held)
    /\ tracks' = Deref(heap', tracksRef')
    /\ last' = [Call(IF held[k].kind = "input" THEN "mutate:input" ELSE "mutate:snapshot",
                     TRUE, k, FALSE) EXCEPT !.edge = what]
    /\ emitted' = <<>>
    /\ adapterCalls' = <<>>
    /\ UNCHANGED <<engineVars, listenerVars, viewVars>>

\* A consumer lets go of a track list.
Forget ==
  \E k \in 1..Len(held) :
    /\ Settle(heap, tracksRef, RemoveAt(held, k))
    /\ last' = Call("forget", TRUE, k, FALSE)
    /\ emitted' = <<>>
    /\ adapterCalls' = <<>>
    /\ UNCHANGED <<tracks, engineVars, listenerVars, viewVars>>

\* Track lists passed in and snapshots handed out, and what consumers do to them.
NextAlias ==
  \/ SetTracksByRef
  \/ GetStateCall
  \/ Mutate
  \/ Forget
  \/ On("statechange")
  \/ Off("statechange")

SpecAlias == InitEdit /\ [][NextAlias]_vars

\* ------------------------------------------------- listeners that throw

listenerFrame == <<currentTime, isPlaying, animFrameId, disposed, hasAdapter, hasRAF,
                   rafQueue, pendingPlays, adapterDisposeCalls>>

\* on('statechange', listener)
OnListener ==
  \E listener \in ListenerInputs :
    /\ registered' = SetAdd(registered, listener)
    /\ listeners' = listeners \cup {"statechange"}
    /\ last' = Call("on", TRUE, 0, FALSE)
    /\ emitted' = <<>>
    /\ adapterCalls' = <<>>
    /\ UNCHANGED <<editVars, listenerFrame, emission, aliasVars, viewVars>>

\* off('statechange', listener)
OffListener ==
  \E listener \in ListenerInputs :
    /\ registered' = SetDelete(registered, listener)
    /\ listeners' = IF registered' = <<>> THEN listeners \ {"statechange"} ELSE listeners
    /\ last' = Call("off", TRUE, 0, FALSE)
    /\ emitted' = <<>>
    /\ adapterCalls' = <<>>
    /\ UNCHANGED <<editVars, listenerFrame, emission, aliasVars, viewVars>>

\* Calls that emit statechange, to the listeners registered.
SelectTrackEmitting ==
  \E trackId \in {"t1", NoTrack} :
    /\ trackId # selectedTrackId
    /\ selectTrack(trackId)
    /\ emission' = emitToListeners(registered)
    /\ UNCHANGED <<registered, aliasVars, viewVars>>

SetTracksEmitting ==
  \E newTracks \in {<<>>, <<TrackSmall>>} :
    /\ setTracks(newTracks)
    /\ emission' = emitToListeners(registered)
    /\ UNCHANGED <<registered, aliasVars, viewVars>>

\* on('statechange', listener) / off('statechange', listener) of listeners that
\* call the engine back; listeners holds the events _listeners has a Set for,
\* which off() and an emission leave there when the Set becomes empty.
OnReentrant ==
  \E listener \in ReentrantListenerInputs :
    /\ registered' = SetAdd(registered, listener)
    /\ listeners' = listeners \cup {"statechange"}
    /\ last' = Call("on", TRUE, 0, FALSE)
    /\ emitted' = <<>>
    /\ adapterCalls' = <<>>
    /\ UNCHANGED <<editVars, listenerFrame, emission, aliasVars, viewVars>>

OffReentrant ==
  \E listener \in ReentrantListenerInputs :
    /\ registered' = SetDelete(registered, listener)
    /\ last' = Call("off", TRUE, 0, FALSE)
    /\ emitted' = <<>>
    /\ adapterCalls' = <<>>
    /\ UNCHANGED <<listeners, editVars, listenerFrame, emission, aliasVars, viewVars>>

\* selectTrack emitting statechange to listeners that call on() / off().
SelectTrackReentrant ==
  \E trackId \in {"t1", NoTrack} :
    /\ trackId # selectedTrackId
    /\ selectTrack(trackId)
    /\ emission' = emitToListeners(registered)
    /\ registered' = emission'.set
    /\ UNCHANGED <<aliasVars, viewVars>>

NextReentrant ==
  \/ OnReentrant
  \/ OffReentrant
  \/ SelectTrackReentrant

SpecReentrant == InitEdit /\ [][NextReentrant]_vars

NextListeners ==
  \/ OnListener
  \/ OffListener
  \/ SelectTrackEmitting
  \/ SetTracksEmitting

SpecListeners == InitEdit /\ [][NextListeners]_vars

\* ------------------------------------------- selection and loop region

\* Seconds passed as range arguments: 0..MaxRange.
MaxRange == 3
RangeInputs == 0..MaxRange

\* The pair stored in the order the caller passed it.
NormalizeRangeAsGiven(start, end) == [start |-> start, end |-> end]

\* The pair stored: start <= end, whatever order the caller passed.
NormalizeRange(start, end) == [start |-> Min(start, end), end |-> Max(start, end)]

rangeFrame == <<tracks, selectedTrackId, adapterTracks, disposed, listeners,
                adapterDisposeCalls, transportVars, configVars, aliasVars, listenerVars,
                tracksVersion, zoomVars, toneVars>>

\* setSelection(start, end): returns early when the stored values do not change.
setSelection(start, end) ==
  LET r == NormalizeRange(start, end)
      unchanged == r.start = selectionStart /\ r.end = selectionEnd
  IN /\ selectionStart' = r.start
     /\ selectionEnd' = r.end
     /\ emitted' = IF unchanged THEN <<>> ELSE <<"statechange">>
     /\ adapterCalls' = <<>>
     /\ args' = <<start, end>>
     /\ last' = Call("setSelection", TRUE, 0, FALSE)
     /\ UNCHANGED <<loopStart, loopEnd, isLoopEnabled, rangeFrame>>

\* setLoopRegion(start, end)
setLoopRegion(start, end) ==
  LET r == NormalizeRange(start, end)
      unchanged == r.start = loopStart /\ r.end = loopEnd
  IN /\ loopStart' = r.start
     /\ loopEnd' = r.end
     /\ emitted' = IF unchanged THEN <<>> ELSE <<"statechange">>
     /\ adapterCalls' = <<>>
     /\ args' = <<start, end>>
     /\ last' = Call("setLoopRegion", TRUE, 0, FALSE)
     /\ UNCHANGED <<selectionStart, selectionEnd, isLoopEnabled, rangeFrame>>

\* setLoopEnabled(enabled)
setLoopEnabled(enabled) ==
  /\ isLoopEnabled' = enabled
  /\ emitted' = IF enabled = isLoopEnabled THEN <<>> ELSE <<"statechange">>
  /\ adapterCalls' = <<>>
  /\ args' = <<>>
  /\ last' = Call("setLoopEnabled", TRUE, 0, FALSE)
  /\ UNCHANGED <<selectionStart, selectionEnd, loopStart, loopEnd, rangeFrame>>

SetSelectionCall == \E start \in RangeInputs, end \in RangeInputs : setSelection(start, end)

SetLoopRegionCall == \E start \in RangeInputs, end \in RangeInputs : setLoopRegion(start, end)

SetLoopEnabledCall == \E enabled \in BOOLEAN : setLoopEnabled(enabled)

NextSelection ==
  \/ SetSelectionCall
  \/ SetLoopRegionCall
  \/ SetLoopEnabledCall

SpecSelection == InitEdit /\ [][NextSelection]_vars

\* ------------------------------------------------------------ zoom calls

zoomFrame == <<tracks, selectedTrackId, adapterTracks, disposed, listeners,
               adapterDisposeCalls, transportVars, configVars, aliasVars, listenerVars,
               rangeVars, tracksVersion, zoomLevels, constructed, callerZoomLevels,
               zoomLevelsRef, toneVars>>

zoomIn ==
  /\ IF CanZoomIn(zoomIndex)
     THEN zoomIndex' = zoomIndex - 1 /\ EmitStateChange
     ELSE zoomIndex' = zoomIndex /\ emitted' = <<>>
  /\ adapterCalls' = <<>>
  /\ args' = <<>>
  /\ last' = Call("zoomIn", TRUE, 0, FALSE)
  /\ UNCHANGED zoomFrame

zoomOut ==
  /\ IF CanZoomOut(zoomIndex, zoomLevels)
     THEN zoomIndex' = zoomIndex + 1 /\ EmitStateChange
     ELSE zoomIndex' = zoomIndex /\ emitted' = <<>>
  /\ adapterCalls' = <<>>
  /\ args' = <<>>
  /\ last' = Call("zoomOut", TRUE, 0, FALSE)
  /\ UNCHANGED zoomFrame

setZoomLevel(spp) ==
  LET newIndex == findClosestZoomIndex(spp, zoomLevels)
  IN /\ IF newIndex = zoomIndex
        THEN zoomIndex' = zoomIndex /\ emitted' = <<>>
        ELSE zoomIndex' = newIndex /\ EmitStateChange
     /\ adapterCalls' = <<>>
     /\ args' = <<spp>>
     /\ last' = Call("setZoomLevel", TRUE, 0, FALSE)
     /\ UNCHANGED zoomFrame

\* Zoom tables passed to the constructor: none, an empty one, one of a single
\* entry, those of the tests.
ZoomLevelsInputs ==
  {Undefined, Given(<<>>), Given(<<1024>>), Given(<<256, 512>>),
   Given(<<256, 512, 1024, 2048>>)}

\* Samples per pixel asked for: table entries, values between two entries, and
\* 384, as far from 256 as from 512.
SamplesPerPixelInputs == {256, 384, 700, 999, 1024}

\* new PlaylistEngine({ samplesPerPixel, zoomLevels })
InitZoom ==
  /\ InitFields
  /\ ~hasAdapter
  /\ ~hasRAF
  /\ \E levels \in ZoomLevelsInputs,
        spp \in {Given(v) : v \in SamplesPerPixelInputs} \cup {Undefined} :
       ConstructZoom([zoomLevels |-> levels, samplesPerPixel |-> spp])

\* Methods are called on an engine the constructor returned.
ZoomInCall == constructed /\ zoomIn

ZoomOutCall == constructed /\ zoomOut

SetZoomLevelCall ==
  \E spp \in SamplesPerPixelInputs : constructed /\ setZoomLevel(spp)

\* getState(), as far as zoom goes.
getStateZoom ==
  [samplesPerPixel |-> samplesPerPixel(zoomLevels, zoomIndex),
   zoomIndex |-> zoomIndex,
   canZoomIn |-> CanZoomIn(zoomIndex),
   canZoomOut |-> CanZoomOut(zoomIndex, zoomLevels)]

\* What the caller does to the array it passed as options.zoomLevels:
\* levels.length = 0, levels.pop(), levels[0] = 1.
ArrayMutationInputs == {"clear", "pop", "set"}

MutatedArray(array, mutation) ==
  CASE mutation = "clear" -> <<>>
    [] mutation = "pop" -> IF array = <<>> THEN array ELSE SubSeq(array, 1, Len(array) - 1)
    [] OTHER -> IF array = <<>> THEN array ELSE [array EXCEPT ![1] = 1]

\* The caller writes to its array; the engine's table changes with it when it
\* is that array.
MutateCallersZoomLevels ==
  \E mutation \in ArrayMutationInputs :
    LET array == MutatedArray(callerZoomLevels[1], mutation)
    IN /\ constructed
       /\ callerZoomLevels # Undefined
       /\ array # callerZoomLevels[1]
       /\ callerZoomLevels' = Given(array)
       /\ zoomLevels' = IF zoomLevelsRef = "caller" THEN array ELSE zoomLevels
       /\ last' = Call("mutate:zoomLevels", TRUE, 0, FALSE)
       /\ emitted' = <<>>
       /\ adapterCalls' = <<>>
       /\ UNCHANGED <<tracks, selectedTrackId, adapterTracks, disposed, listeners,
                      adapterDisposeCalls, transportVars, configVars, aliasVars,
                      listenerVars, rangeVars, args, tracksVersion, zoomIndex,
                      constructed, zoomLevelsRef, toneVars>>

NextZoom ==
  \/ MutateCallersZoomLevels
  \/ ZoomInCall
  \/ ZoomOutCall
  \/ SetZoomLevelCall
  \/ (constructed /\ On("statechange"))
  \/ (constructed /\ Off("statechange"))

SpecZoom == InitZoom /\ [][NextZoom]_vars

\* ------------------------------------------------------- tracksVersion

\* The model follows the counter up to MaxVersion.
MaxVersion == 3

\* The counter left as it was.
NextTracksVersionStale(version, emits) == version

\* A track method that reaches its emission increments the counter first.
NextTracksVersion(version, emits) == IF emits THEN version + 1 ELSE version

\* What a track method does to the counter: nothing when it returned early.
IncrementTracksVersion ==
  /\ tracksVersion < MaxVersion
  /\ tracksVersion' = NextTracksVersion(tracksVersion, emitted' = <<"statechange">>)
  /\ UNCHANGED <<aliasVars, listenerVars, rangeVars, args, zoomVars, toneVars>>

SetTracksVersioned ==
  \E newTracks \in {<<>>, <<TrackWhole>>} : setTracks(newTracks) /\ IncrementTracksVersion

AddTrackVersioned ==
  \E track \in TrackInputs :
    /\ \A i \in 1..Len(tracks) : tracks[i].id # track.id
    /\ addTrack(track)
    /\ IncrementTracksVersion

RemoveTrackVersioned ==
  \E trackId \in TrackIdInputs : removeTrack(trackId) /\ IncrementTracksVersion

\* Edits tried on the one clip loaded: a step either way or none, a split at
\* its start or in its middle.
VersionDeltaInputs == {-1, 0, 1}
VersionSplitInputs == {0, 2}

MoveClipVersioned ==
  \E trackId \in {"t1"}, clipId \in ClipIdInputs, deltaSamples \in VersionDeltaInputs :
    /\ moveClip(trackId, clipId, deltaSamples)
    /\ \A i \in 1..Len(tracks') : \A j \in 1..Len(tracks'[i].clips) :
         tracks'[i].clips[j].startSample + tracks'[i].clips[j].durationSamples <= MaxSample
    /\ IncrementTracksVersion

TrimClipVersioned ==
  \E trackId \in {"t1"}, clipId \in ClipIdInputs,
     boundary \in BoundaryInputs, deltaSamples \in VersionDeltaInputs :
    trimClip(trackId, clipId, boundary, deltaSamples) /\ IncrementTracksVersion

SplitClipVersioned ==
  \E trackId \in {"t1"}, clipId \in ClipIdInputs, atSample \in VersionSplitInputs :
    splitClip(trackId, clipId, atSample) /\ IncrementTracksVersion

NextVersion ==
  \/ SetTracksVersioned
  \/ (tracks = <<>> /\ AddTrackVersioned)
  \/ RemoveTrackVersioned
  \/ MoveClipVersioned
  \/ TrimClipVersioned
  \/ SplitClipVersioned
  \/ setSelection(2, 1)
  \/ setLoopRegion(2, 1)
  \/ setZoomLevel(256)
  \/ PlayCall
  \/ StopCall

SpecVersion == InitEdit /\ [][NextVersion]_vars

\* ------------------------------------------------ tracks and selection

\* Ids passed to removeTrack and selectTrack: of the three tracks, and one of none.
RemovedTrackIdInputs == {"t1", "t2", "t3", "nonexistent"}

tracksFrame == <<aliasVars, listenerVars, rangeVars, tracksVersion, zoomVars, toneVars>>

LoadTracks ==
  \E newTracks \in {<<>>, <<TrackWhole, TrackSmall, TrackEmpty>>} :
    setTracks(newTracks) /\ args' = <<>> /\ UNCHANGED tracksFrame

AppendTrack ==
  \E track \in {TrackWhole, TrackSmall, TrackEmpty} :
    /\ \A i \in 1..Len(tracks) : tracks[i].id # track.id
    /\ addTrack(track)
    /\ args' = <<track.id>>
    /\ UNCHANGED tracksFrame

SelectTrackById ==
  \E trackId \in {"t1", "t2", NoTrack} :
    selectTrack(trackId) /\ args' = <<trackId>> /\ UNCHANGED tracksFrame

RemoveTrackById ==
  \E trackId \in RemovedTrackIdInputs :
    removeTrack(trackId) /\ args' = <<trackId>> /\ UNCHANGED tracksFrame

NextTracks ==
  \/ LoadTracks
  \/ AppendTrack
  \/ SelectTrackById
  \/ RemoveTrackById

\* Track management, with and without an adapter.
InitTracks == Init /\ ~hasRAF

SpecTracks == InitTracks /\ [][NextTracks]_vars

\* ------------------------------------------------- track audio controls

\* A track as makeTrack builds it, with its audio fields; volume and pan are
\* counted in hundredths.
TrackAudible ==
  [id |-> "t1", clips |-> <<Clip(1, 1, 2, 0, 2)>>,
   muted |-> FALSE, soloed |-> FALSE, volume |-> 100, pan |-> 0]

\* A control method that calls nothing.
PassThroughDropped(method, arguments) ==
  /\ adapterCalls' = <<>>
  /\ last' = Call(method, TRUE, 0, FALSE)
  /\ emitted' = <<>>
  /\ UNCHANGED <<tracks, selectedTrackId, adapterTracks, disposed, listeners,
                 adapterDisposeCalls, transportVars, configVars>>

\* this._adapter?.method(...arguments) and nothing else.
PassThrough(method, arguments) ==
  /\ adapterCalls' = IF hasAdapter THEN <<method>> ELSE <<>>
  /\ last' = [Call(method, TRUE, 0, FALSE) EXCEPT
                !.forwarded = IF hasAdapter THEN arguments ELSE <<>>]
  /\ emitted' = <<>>
  /\ UNCHANGED <<tracks, selectedTrackId, adapterTracks, disposed, listeners,
                 adapterDisposeCalls, transportVars, configVars>>

setMasterVolume(volume) == PassThrough("setMasterVolume", <<volume>>)

setTrackVolume(trackId, volume) == PassThrough("setTrackVolume", <<trackId, volume>>)

setTrackMute(trackId, muted) == PassThrough("setTrackMute", <<trackId, muted>>)

setTrackSolo(trackId, soloed) == PassThrough("setTrackSolo", <<trackId, soloed>>)

setTrackPan(trackId, pan) == PassThrough("setTrackPan", <<trackId, pan>>)

VolumeInputs == {0, 50, 100}
PanInputs == {-50, 0, 50}

LoadAudibleTracks ==
  \E newTracks \in {<<>>, <<TrackAudible>>} :
    setTracks(newTracks) /\ args' = <<>> /\ UNCHANGED tracksFrame

SetMasterVolumeCall ==
  \E volume \in VolumeInputs :
    setMasterVolume(volume) /\ args' = <<volume>> /\ UNCHANGED tracksFrame

SetTrackVolumeCall ==
  \E trackId \in TrackIdInputs, volume \in VolumeInputs :
    setTrackVolume(trackId, volume) /\ args' = <<trackId, volume>> /\ UNCHANGED tracksFrame

SetTrackMuteCall ==
  \E trackId \in TrackIdInputs, muted \in BOOLEAN :
    setTrackMute(trackId, muted) /\ args' = <<trackId, muted>> /\ UNCHANGED tracksFrame

SetTrackSoloCall ==
  \E trackId \in TrackIdInputs, soloed \in BOOLEAN :
    setTrackSolo(trackId, soloed) /\ args' = <<trackId, soloed>> /\ UNCHANGED tracksFrame

SetTrackPanCall ==
  \E trackId \in TrackIdInputs, pan \in PanInputs :
    setTrackPan(trackId, pan) /\ args' = <<trackId, pan>> /\ UNCHANGED tracksFrame

NextAudio ==
  \/ LoadAudibleTracks
  \/ SetMasterVolumeCall
  \/ SetTrackVolumeCall
  \/ SetTrackMuteCall
  \/ SetTrackSoloCall
  \/ SetTrackPanCall

\* The audio controls, with and without an adapter.
SpecAudio == InitTracks /\ [][NextAudio]_vars

\* ------------------------------------------------------ the Tone adapter

\* Playouts the adapter builds in a run.
MaxGeneration == 3
\* Adapter play() calls that may await playout.init() at once.
MaxPendingInits == 2

\* What the engine holds while the adapter is looked at on its own.
toneFrame == <<tracks, selectedTrackId, adapterTracks, disposed, listeners,
               adapterDisposeCalls, transportVars, configVars, emitted, adapterCalls,
               aliasVars, listenerVars, rangeVars, args, tracksVersion, zoomVars>>

\* A completion callback that takes every playout for the current one.
IsCurrentGenerationAlways(generation) == TRUE

\* generation === _playoutGeneration
IsCurrentGeneration(generation) == generation = playoutGeneration

\* setTracks(tracks): buildPlayout disposes the playout, counts the generation
\* up and builds a new playout, whose completion callback holds the new count.
ToneSetTracks ==
  /\ playoutGeneration < MaxGeneration
  /\ playoutGeneration' = playoutGeneration + 1
  /\ playout' = TRUE
  /\ last' = Call("adapter.setTracks", TRUE, playoutGeneration', FALSE)
  /\ UNCHANGED <<toneIsPlaying, startedPlayouts, pendingInits, toneFrame>>

\* play(startTime, endTime) up to its await; it returns at once without a playout.
TonePlay ==
  /\ pendingInits < MaxPendingInits
  /\ pendingInits' = IF playout THEN pendingInits + 1 ELSE pendingInits
  /\ last' = Call("adapter.play:awaiting", playout, playoutGeneration, FALSE)
  /\ UNCHANGED <<playout, playoutGeneration, toneIsPlaying, startedPlayouts, toneFrame>>

\* playout.init() resolves: playout.play(...) on the playout the adapter holds
\* now, then _isPlaying = true; with playout null by now the call throws.
TonePlayResume ==
  /\ pendingInits > 0
  /\ pendingInits' = pendingInits - 1
  /\ IF playout
     THEN /\ startedPlayouts' = startedPlayouts \cup {playoutGeneration}
          /\ toneIsPlaying' = TRUE
     ELSE UNCHANGED <<startedPlayouts, toneIsPlaying>>
  /\ last' = Call("adapter.play:resolved", playout, playoutGeneration, FALSE)
  /\ UNCHANGED <<playout, playoutGeneration, toneFrame>>

\* pause() / stop()
TonePauseOrStop ==
  \E method \in {"adapter.pause", "adapter.stop"} :
    /\ toneIsPlaying' = FALSE
    /\ last' = Call(method, playout, playoutGeneration, FALSE)
    /\ UNCHANGED <<playout, playoutGeneration, startedPlayouts, pendingInits, toneFrame>>

\* dispose()
ToneDispose ==
  /\ playout' = FALSE
  /\ toneIsPlaying' = FALSE
  /\ last' = Call("adapter.dispose", playout, playoutGeneration, FALSE)
  /\ UNCHANGED <<playoutGeneration, startedPlayouts, pendingInits, toneFrame>>

\* A playout that was played calls the callback it was given by
\* setOnPlaybackComplete, whether the adapter still holds that playout or not.
TonePlaybackComplete ==
  \E generation \in startedPlayouts :
    /\ startedPlayouts' = startedPlayouts \ {generation}
    /\ toneIsPlaying' = IF IsCurrentGeneration(generation) THEN FALSE ELSE toneIsPlaying
    /\ last' = Call("adapter:complete", generation = playoutGeneration, generation, FALSE)
    /\ UNCHANGED <<playout, playoutGeneration, pendingInits, toneFrame>>

NextTone ==
  \/ ToneSetTracks
  \/ TonePlay
  \/ TonePlayResume
  \/ TonePauseOrStop
  \/ ToneDispose
  \/ TonePlaybackComplete

\* The Tone adapter on its own.
SpecTone == InitEdit /\ [][NextTone]_vars

\* ------------------------------------------------------------ properties

ClipEnd(clip) == clip.startSample + clip.durationSamples

NoOverlap(clips) ==
  \A i, j \in 1..Len(clips) :
    (i # j /\ clips[i].startSample <= clips[j].startSample)
      => ClipEnd(clips[i]) <= clips[j].startSample

ClipWithinBounds(clip) ==
  /\ 0 <= clip.offsetSamples
  /\ clip.offsetSamples + clip.durationSamples <= clip.sourceDurationSamples
  /\ clip.startSample >= 0

EveryClip(trks, P(_)) ==
  \A t \in 1..Len(trks) : \A i \in 1..Len(trks[t].clips) : P(trks[t].clips[i])

HasMinDuration(clip) == clip.durationSamples >= MinDuration

ClipEdit == {"moveClip", "trimClip", "splitClip"}

\* C1: from loaded tracks whose clips satisfy the clip invariants and do not
\* overlap, whatever moveClip / trimClip / splitClip calls are made, no two
\* clips of a track overlap: the one that starts first ends at or before the
\* start of the other.
C1_NoOverlap == \A t \in 1..Len(tracks) : NoOverlap(tracks[t].clips)

\* A move to the right was cut short by the next clip, which the moved clip
\* now touches.
C1_MoveStoppedAtNeighbour ==
  /\ last.op = "moveClip" /\ last.clamped /\ last.delta > 0
  /\ \E t \in 1..Len(tracks) : \E i, j \in 1..Len(tracks[t].clips) :
       i # j /\ ClipEnd(tracks[t].clips[i]) = tracks[t].clips[j].startSample

\* C2: from clips at least the minimum duration long, whatever trimClip and
\* splitClip calls are made, every clip of every track, both halves of a split
\* included, is at least the minimum duration long.
C2_MinDuration == EveryClip(tracks, HasMinDuration)

\* A split was carried out and left two adjacent halves of one source, one of
\* them exactly the minimum duration long.
C2_SplitAtMinDuration ==
  /\ last.op = "splitClip" /\ last.found /\ ~last.clamped
  /\ emitted = <<"statechange">>
  /\ \E t \in 1..Len(tracks) : \E i \in 1..(Len(tracks[t].clips) - 1) :
       LET left == tracks[t].clips[i]
           right == tracks[t].clips[i + 1]
       IN /\ ClipEnd(left) = last.delta /\ right.startSample = last.delta
          /\ right.offsetSamples = left.offsetSamples + left.durationSamples
          /\ (left.durationSamples = MinDuration \/ right.durationSamples = MinDuration)

C4_AdapterInSync == hasAdapter => adapterTracks = tracks

C6_RejectedPlayRestoresTime ==
  last.op = "play:rejected" => currentTime = last.timeBefore

\* C7: a frame callback that runs while the engine is not playing, or after
\* dispose(), emits no timeupdate and leaves currentTime alone, and requests
\* no further frame; so it is after pause(), stop() and dispose(), also when
\* a timeupdate listener called them.
C7_NoFrameWorkAtRest ==
  [][(last'.op = "tick" /\ (~isPlaying \/ disposed))
       => /\ \A i \in 1..Len(emitted') : emitted'[i] # "timeupdate"
          /\ currentTime' = currentTime
          /\ rafQueue' \subseteq rafQueue]_vars

\* A frame callback ran on a live engine that was not playing and did nothing:
\* the frame that a timeupdate listener's pause() or stop() left requested.
C7_FrameRanAtRest ==
  /\ last.op = "tick" /\ ~isPlaying /\ ~disposed /\ hasAdapter
  /\ emitted = <<>> /\ adapterCalls = <<>> /\ rafQueue = {}

\* C8: however often dispose() is called, adapter.dispose() is called exactly
\* once on an engine with an adapter, by the first call.
C8_DisposeOnce ==
  /\ adapterDisposeCalls <= 1
  /\ (disposed /\ hasAdapter) => adapterDisposeCalls = 1
  /\ ~disposed => adapterDisposeCalls = 0

\* dispose() was called on a disposed engine and called nothing.
C8_DisposedAgain ==
  /\ last.op = "dispose" /\ ~last.found /\ hasAdapter
  /\ adapterDisposeCalls = 1 /\ adapterCalls = <<>>

\* C9: a moveClip or trimClip call whose constrained delta is 0 leaves the
\* tracks as they are and emits no statechange.
C9_ZeroDeltaIsNoOp ==
  [][(last'.op \in {"moveClip", "trimClip"} /\ last'.found /\ last'.delta = 0)
       => (tracks' = tracks /\ emitted' = <<>>)]_vars

\* A move by a delta other than 0 was constrained to 0 and did nothing.
C9_MoveConstrainedToZero ==
  /\ last.op = "moveClip" /\ last.found /\ last.delta = 0 /\ last.clamped
  /\ emitted = <<>> /\ tracks # <<>>

HalvesCover(clip, p, left, right) ==
  /\ left.durationSamples + right.durationSamples = clip.durationSamples
  /\ left.startSample = clip.startSample /\ ClipEnd(left) = p
  /\ right.startSample = p /\ ClipEnd(right) = ClipEnd(clip)
  /\ left.offsetSamples = clip.offsetSamples
  /\ right.offsetSamples = left.offsetSamples + left.durationSamples
  /\ right.offsetSamples + right.durationSamples
       = clip.offsetSamples + clip.durationSamples

\* C11: splitting a clip at any position strictly inside it yields a left and
\* a right clip whose durations sum to the clip's, left covering
\* [startSample, p) and right [p, startSample + D), with right.offsetSamples =
\* left.offsetSamples + left.durationSamples: together the clip's timeline
\* range and source range. Stated of every clip the engine holds and every
\* interior position.
C11_SplitCoversOriginal ==
  \A t \in 1..Len(tracks) : \A i \in 1..Len(tracks[t].clips) :
    LET clip == tracks[t].clips[i]
    IN \A p \in SampleInputs :
         (clip.startSample < p /\ p < ClipEnd(clip))
           => LET halves == splitClipOp(clip, p, 0, 0)
              IN HalvesCover(clip, p, halves.left, halves.right)

\* The engine split a clip that starts inside its source audio: the halves it
\* holds meet at the split position on the timeline and in the source, and a
\* clip that can be split again is held.
C11_SplitWithOffset ==
  /\ last.op = "splitClip" /\ last.found /\ ~last.clamped
  /\ \E t \in 1..Len(tracks) : \E i \in 1..(Len(tracks[t].clips) - 1) :
       LET left == tracks[t].clips[i]
           right == tracks[t].clips[i + 1]
       IN /\ left.offsetSamples > 0
          /\ ClipEnd(left) = last.delta /\ right.startSample = last.delta
          /\ right.offsetSamples = left.offsetSamples + left.durationSamples
  /\ \E t \in 1..Len(tracks) : \E i \in 1..Len(tracks[t].clips) :
       tracks[t].clips[i].durationSamples > 1

\* clips with the clip at index i replaced by its halves split at p gives after.
ReplacedByHalves(clips, i, p, after) ==
  LET clip == clips[i]
  IN /\ clip.startSample < p /\ p < ClipEnd(clip)
     /\ p - clip.startSample >= MinDuration /\ ClipEnd(clip) - p >= MinDuration
     /\ Len(after) = Len(clips) + 1
     /\ HalvesCover(clip, p, after[i], after[i + 1])
     /\ \A j \in 1..(i - 1) : after[j] = clips[j]
     /\ \A j \in (i + 1)..Len(clips) : after[j + 1] = clips[j]

\* C12: a splitClip call either leaves the tracks as they are and emits
\* nothing, or was given a position strictly inside one clip with both halves
\* at least the minimum duration long; then that clip's list has one clip
\* more, the left half at the clip's index and the right half after it, every
\* other clip and track is as it was, and statechange is emitted once.
C12_SplitReplacesInPlace ==
  [][last'.op = "splitClip"
       => \/ (tracks' = tracks /\ emitted' = <<>>)
          \/ /\ emitted' = <<"statechange">>
             /\ Len(tracks') = Len(tracks)
             /\ \E t \in 1..Len(tracks) :
                  /\ \A u \in 1..Len(tracks) : u # t => tracks'[u] = tracks[u]
                  /\ tracks'[t].id = tracks[t].id
                  /\ \E i \in 1..Len(tracks[t].clips) :
                       ReplacedByHalves(tracks[t].clips, i, last'.delta,
                                        tracks'[t].clips)]_vars

\* A split replaced a clip that is not the last of its list: the halves are
\* followed by a clip that starts later on the timeline.
C12_SplitBeforeAnotherClip ==
  /\ last.op = "splitClip" /\ last.found /\ ~last.clamped
  /\ \E t \in 1..Len(tracks) : \E i \in 1..(Len(tracks[t].clips) - 2) :
       LET clips == tracks[t].clips
       IN /\ ClipEnd(clips[i]) = last.delta /\ clips[i + 1].startSample = last.delta
          /\ clips[i + 2].startSample >= ClipEnd(clips[i + 1])

\* The engine's tracks are what its array reads as.
TracksAreHeapTracks == tracks = Deref(heap, tracksRef)

\* C13: a write to anything reachable from a snapshot (from getState() or
\* passed to a statechange listener): its tracks array, a track object, a clip
\* list, a field of a clip, changes neither the engine's tracks nor what any
\* other snapshot held reads as.
C13_SnapshotIsDeepCopy ==
  [][last'.op = "mutate:snapshot"
       => /\ tracks' = tracks
          /\ \A j \in 1..Len(held) :
               (j # last'.delta /\ held[j].kind = "snapshot")
                 => Deref(heap', held'[j].ref) = Deref(heap, held[j].ref)]_vars

C15_ListenersIsolated ==
  [][last'.op \in {"selectTrack", "setTracks"}
       => /\ emission'.called = registered
          /\ ~emission'.thrown
          /\ emitted' = <<"statechange">>
          /\ last'.op = "selectTrack" => selectedTrackId' # selectedTrackId]_vars

\* A listener that throws was called first and logged, and the two listeners
\* registered after it were called.
C15_ThrowBeforeOthers ==
  /\ last.op = "selectTrack"
  /\ Len(registered) = 3 /\ Throws(registered[1])
  /\ emission.called = registered /\ emission.warned = 1 /\ ~emission.thrown

\* C16: after setSelection(a, b) the state has selectionStart = min(a, b) and
\* selectionEnd = max(a, b), after setLoopRegion(a, b) it has loopStart =
\* min(a, b) and loopEnd = max(a, b); so selectionStart <= selectionEnd and
\* loopStart <= loopEnd in every reachable state.
C16_RangesNormalized ==
  /\ [](selectionStart <= selectionEnd /\ loopStart <= loopEnd)
  /\ [][/\ last'.op = "setSelection" =>
             /\ selectionStart' = Min(args'[1], args'[2])
             /\ selectionEnd' = Max(args'[1], args'[2])
        /\ last'.op = "setLoopRegion" =>
             /\ loopStart' = Min(args'[1], args'[2])
             /\ loopEnd' = Max(args'[1], args'[2])]_vars

\* A loop region passed end first is stored start first, the selection set.
C16_LoopRegionSwapped ==
  /\ last.op = "setLoopRegion"
  /\ args[1] > args[2]
  /\ loopStart = args[2]
  /\ loopEnd = args[1]
  /\ selectionStart < selectionEnd

TrackMethods == {"setTracks", "addTrack", "removeTrack", "moveClip", "trimClip", "splitClip"}

\* C17: tracksVersion never decreases; it strictly increases on every setTracks
\* and addTrack, on every removeTrack that removes a track and on every
\* moveClip, trimClip or splitClip that changes a clip; it stays the same
\* across selection, loop, zoom and playback calls.
C17_TracksVersionMonotonic ==
  [][/\ tracksVersion' >= tracksVersion
     /\ tracks' # tracks => tracksVersion' > tracksVersion
     /\ last'.op \in {"setTracks", "addTrack"} => tracksVersion' > tracksVersion
     /\ last'.op \notin TrackMethods => tracksVersion' = tracksVersion]_vars

\* The counter has counted a setTracks and a split, and a selection change
\* after them has left it there.
C17_SelectionAfterSplit ==
  /\ last.op = "setSelection"
  /\ emitted = <<"statechange">>
  /\ Len(tracks) = 1
  /\ Len(tracks[1].clips) = 2
  /\ tracksVersion >= 2

ZoomUnchanged == UNCHANGED <<tracks, currentTime, isPlaying, selectedTrackId, zoomLevels,
                             zoomIndex, rangeVars, tracksVersion, disposed, listeners>>

\* C18: zoomIn and zoomOut move the zoom index by exactly one step within the
\* table; zoomIn at index 0, zoomOut at the last index and a setZoomLevel that
\* resolves to the current index change no state and emit no statechange.
C18_ZoomStepsAndNoOps ==
  [][/\ last'.op = "zoomIn" =>
          IF zoomIndex = 0 THEN ZoomUnchanged /\ emitted' = <<>>
          ELSE zoomIndex' = zoomIndex - 1 /\ zoomIndex' >= 0
     /\ last'.op = "zoomOut" =>
          IF zoomIndex = Len(zoomLevels) - 1 THEN ZoomUnchanged /\ emitted' = <<>>
          ELSE zoomIndex' = zoomIndex + 1 /\ zoomIndex' <= Len(zoomLevels) - 1
     /\ (last'.op = "setZoomLevel" /\ zoomIndex' = zoomIndex) =>
          ZoomUnchanged /\ emitted' = <<>>]_vars

\* zoomIn at the first entry of a table of several did nothing.
C18_ZoomInAtMinimum ==
  /\ last.op = "zoomIn"
  /\ zoomIndex = 0
  /\ emitted = <<>>
  /\ Len(zoomLevels) > 1

Abs(x) == IF x < 0 THEN -x ELSE x

\* The samples per pixel the last constructor or setZoomLevel call asked for.
TargetSamplesPerPixel == IF args = <<>> THEN DEFAULT_SAMPLES_PER_PIXEL ELSE args[1]

\* The index holds the value nearest to the target, and no lower index does.
IsClosestIndex(index, target, levels) ==
  /\ index + 1 \in 1..Len(levels)
  /\ \A j \in 1..Len(levels) :
       Abs(levels[index + 1] - target) <= Abs(levels[j] - target)
  /\ \A j \in 1..index :
       Abs(levels[j] - target) > Abs(levels[index + 1] - target)

\* C19: the constructor and setZoomLevel leave the zoom index at the table
\* value with the smallest absolute difference from the samples per pixel
\* asked for, the lowest such index on ties.
C19_SnapsToClosest ==
  (constructed /\ last.op \in {"new", "setZoomLevel"}) =>
    IsClosestIndex(zoomIndex, TargetSamplesPerPixel, zoomLevels)

\* C20: constructing the engine with an empty zoom table throws; every engine
\* there is has a zoom table that is not empty and a samplesPerPixel that is
\* defined.
C20_NoEngineWithEmptyTable ==
  /\ zoomLevels = <<>> => ~constructed
  /\ constructed => samplesPerPixel(zoomLevels, zoomIndex) # Undefined

\* The constructor was passed an empty table and threw.
C20_ConstructorThrew ==
  /\ last.op = "new"
  /\ zoomLevels = <<>>
  /\ ~constructed
  /\ zoomIndex = NoZoomIndex

\* The time a seek or play request is clamped to.
ClampedRequest(request, trks) ==
  LET duration == calculateDuration(trks)
  IN IF request < 0 THEN 0 ELSE IF request > duration THEN duration ELSE request

\* C21: seek(t) and play(t) set currentTime to t clamped to [0, duration], the
\* duration being that of the current tracks, and hand that clamped value,
\* never the raw request, to adapter.seek / adapter.play; play() without a
\* start time leaves currentTime alone and hands it on as it is.
C21_ClampedTimeSetAndForwarded ==
  [][/\ last'.op = "seek" =>
          /\ currentTime' = ClampedRequest(last'.requested[1], tracks')
          /\ last'.forwarded = IF hasAdapter THEN <<currentTime'>> ELSE <<>>
     /\ (last'.op = "play:awaiting" \/ (last'.op = "play:resolved" /\ ~hasAdapter)) =>
          /\ currentTime' = IF last'.requested = Undefined THEN currentTime
                            ELSE ClampedRequest(last'.requested[1], tracks')
          /\ last'.forwarded = IF hasAdapter THEN <<currentTime'>> ELSE <<>>
          /\ currentTime' \in 0..calculateDuration(tracks') \/ last'.requested = Undefined]_vars

\* A play request past the end of loaded tracks was clamped to their duration
\* and the adapter handed the duration.
C21_PlayPastEndClamped ==
  /\ last.op = "play:awaiting"
  /\ last.requested # Undefined
  /\ calculateDuration(tracks) > 0
  /\ last.requested[1] > calculateDuration(tracks)
  /\ currentTime = calculateDuration(tracks)
  /\ last.forwarded = <<currentTime>>

\* C22: pause() with an adapter attached calls adapter.pause, then reads the
\* adapter's position and sets currentTime to it; isPlaying is false afterwards.
C22_PauseTakesAdapterTime ==
  [][(last'.op = "pause" /\ hasAdapter) =>
        /\ adapterCalls' = <<"pause", "getCurrentTime">>
        /\ Len(last'.reported) = 1
        /\ currentTime' = last'.reported[1]
        /\ ~isPlaying']_vars

\* A pause moved currentTime to the position the adapter reported.
C22_PausedAtAdapterTime ==
  /\ last.op = "pause"
  /\ hasAdapter
  /\ last.reported = <<MaxAdapterTime>>
  /\ currentTime = MaxAdapterTime
  /\ ~isPlaying
  /\ emitted = <<"pause", "statechange">>

\* C23: stop() from any state leaves isPlaying false and currentTime 0, calls
\* adapter.stop when an adapter is attached, and emits stop and statechange.
C23_StopResets ==
  [][last'.op = "stop" =>
        /\ ~isPlaying'
        /\ currentTime' = 0
        /\ adapterCalls' = IF hasAdapter THEN <<"stop">> ELSE <<>>
        /\ emitted' = <<"stop", "statechange">>]_vars

\* stop() of an engine with an adapter whose position was past 0.
C23_StoppedAwayFromStart ==
  /\ last.op = "stop"
  /\ last.timeBefore > 0
  /\ hasAdapter
  /\ currentTime = 0
  /\ ~isPlaying
  /\ adapterCalls = <<"stop">>

HoldsTrack(trks, id) == \E i \in 1..Len(trks) : trks[i].id = id

\* C25: removeTrack(id) with an id not in the track list changes nothing,
\* calls no adapter method and emits nothing; with an id in the list it
\* removes that track and keeps the others in order, sets selectedTrackId to
\* null if it was id and leaves it otherwise.
C25_RemoveTrackEffect ==
  [][last'.op = "removeTrack" =>
       LET id == args'[1] IN
       IF ~HoldsTrack(tracks, id)
       THEN /\ UNCHANGED <<tracks, selectedTrackId, adapterTracks, currentTime, isPlaying,
                           listeners, disposed>>
            /\ adapterCalls' = <<>>
            /\ emitted' = <<>>
       ELSE /\ tracks' = SelectSeq(tracks, LAMBDA t : t.id # id)
            /\ Len(tracks') = Len(tracks) - 1
            /\ selectedTrackId' = IF selectedTrackId = id THEN NoTrack ELSE selectedTrackId
            /\ emitted' = <<"statechange">>]_vars

\* The middle one of three tracks was removed while the first was selected:
\* the outer two are left in order and the first is still selected.
C25_MiddleTrackRemoved ==
  /\ last.op = "removeTrack"
  /\ last.found
  /\ args = <<"t2">>
  /\ tracks = <<TrackWhole, TrackEmpty>>
  /\ selectedTrackId = "t1"
  /\ emitted = <<"statechange">>

\* Deltas asked of the constraint functions: beyond the timeline either way.
RequestedDeltas == (-(MaxSample + 1))..(MaxSample + 1)

\* x clamped to [lo, hi]; a bound that is absent is passed as <<>>.
ClampTo(x, lo, hi) ==
  IF lo # <<>> /\ x < lo[1] THEN lo[1]
  ELSE IF hi # <<>> /\ x > hi[1] THEN hi[1]
  ELSE x

\* The interval constrainClipDrag is to clamp to, for the i-th of sorted clips.
DragLowerBound(sorted, i) ==
  IF i = 1 THEN <<-sorted[i].startSample>>
  ELSE <<Max(-sorted[i].startSample, ClipEnd(sorted[i - 1]) - sorted[i].startSample)>>

DragUpperBound(sorted, i) ==
  IF i = Len(sorted) THEN <<>>
  ELSE <<sorted[i + 1].startSample - ClipEnd(sorted[i])>>

\* Clips A [0, 5000) and B [10000, 15000) of the drag scenario.
ScenarioA == createClip(1, 0, 5000, 0, 44100, 441000)
ScenarioB == createClip(2, 10000, 5000, 0, 44100, 441000)

\* C27: for the clip at index i of a non-overlapping sorted clip list,
\* constrainClipDrag returns the requested delta clamped to
\* [max(-startSample, prevEnd - startSample), nextStart - end], no previous
\* clip bound for the first clip and no upper bound for the last; A [0, 5000)
\* next to B [10000, 15000) asked to move by 8000 moves by 5000.
C27_DragClampedToInterval ==
  /\ \A t \in 1..Len(tracks) :
       LET sorted == sortClipsByTime(tracks[t].clips) IN
       \A i \in 1..Len(sorted), delta \in RequestedDeltas :
         constrainClipDrag(sorted[i], delta, sorted, i)
           = ClampTo(delta, DragLowerBound(sorted, i), DragUpperBound(sorted, i))
  /\ constrainClipDrag(ScenarioA, 8000, <<ScenarioA, ScenarioB>>, 1) = 5000

\* A move to the left was cut short by the end of the previous clip, which
\* the moved clip now touches away from sample 0.
C27_MoveStoppedAtPreviousClip ==
  /\ last.op = "moveClip" /\ last.clamped /\ last.delta < 0
  /\ \E t \in 1..Len(tracks) : \E i, j \in 1..Len(tracks[t].clips) :
       /\ i # j
       /\ tracks[t].clips[j].startSample > 0
       /\ ClipEnd(tracks[t].clips[i]) = tracks[t].clips[j].startSample

TrackAudioMethods == {"setTrackVolume", "setTrackMute", "setTrackSolo", "setTrackPan"}

\* C26: setTrackVolume, setTrackMute, setTrackSolo and setTrackPan forward one
\* call with the arguments they were passed to the adapter, none without an
\* adapter, and leave the engine's tracks, the volume, muted, soloed and pan
\* fields of the track named included, as they were.
C26_TrackAudioPassThrough ==
  [][last'.op \in TrackAudioMethods =>
        /\ adapterCalls' = IF hasAdapter THEN <<last'.op>> ELSE <<>>
        /\ last'.forwarded = IF hasAdapter THEN args' ELSE <<>>
        /\ tracks' = tracks
        /\ adapterTracks' = adapterTracks]_vars

\* The loaded track was muted through an adapter: the adapter was handed the
\* call, the track's own muted field is still false.
C26_MutedThroughAdapter ==
  /\ last.op = "setTrackMute"
  /\ hasAdapter
  /\ last.forwarded = <<"t1", TRUE>>
  /\ adapterCalls = <<"setTrackMute">>
  /\ tracks = <<TrackAudible>>
  /\ ~tracks[1].muted

\* The interval a trim of the start edge is to be clamped to.
TrimLeftLowerBound(sorted, i) ==
  LET own == Max(-sorted[i].startSample, -sorted[i].offsetSamples)
  IN IF i = 1 THEN own
     ELSE Max(own, ClipEnd(sorted[i - 1]) - sorted[i].startSample)

TrimLeftUpperBound(sorted, i) == sorted[i].durationSamples - MinDuration

\* The interval a trim of the end edge is to be clamped to.
TrimRightLowerBound(sorted, i) == MinDuration - sorted[i].durationSamples

TrimRightUpperBound(sorted, i) ==
  LET room == sorted[i].sourceDurationSamples - sorted[i].offsetSamples
                - sorted[i].durationSamples
  IN IF i = Len(sorted) THEN room
     ELSE Min(room, sorted[i + 1].startSample - sorted[i].startSample
                      - sorted[i].durationSamples)

\* C28: for a clip within its source audio, on the timeline and at least the
\* minimum duration long, in a non-overlapping sorted list, constrainBoundaryTrim
\* returns the requested delta clamped to
\* [max(-startSample, -offsetSamples, prevEnd - startSample),
\* durationSamples - minDuration] for the start edge and to
\* [minDuration - durationSamples, min(sourceDurationSamples - offsetSamples -
\* durationSamples, nextStart - startSample - durationSamples)] for the end edge.
C28_TrimClampedToInterval ==
  \A t \in 1..Len(tracks) :
    LET sorted == sortClipsByTime(tracks[t].clips) IN
    (/\ NoOverlap(tracks[t].clips)
     /\ \A i \in 1..Len(sorted) : ClipWithinBounds(sorted[i]) /\ HasMinDuration(sorted[i]))
    => \A i \in 1..Len(sorted), delta \in RequestedDeltas :
         /\ constrainBoundaryTrim(sorted[i], delta, "left", sorted, i, MinDuration)
              = ClampTo(delta, <<TrimLeftLowerBound(sorted, i)>>,
                               <<TrimLeftUpperBound(sorted, i)>>)
         /\ constrainBoundaryTrim(sorted[i], delta, "right", sorted, i, MinDuration)
              = ClampTo(delta, <<TrimRightLowerBound(sorted, i)>>,
                               <<TrimRightUpperBound(sorted, i)>>)

\* A trim of the end edge outwards was cut short where the source audio ends:
\* the clip now reaches the end of its source and no clip starts at its end.
C28_RightTrimStoppedAtSourceEnd ==
  /\ last.op = "trimClip" /\ last.edge = "right" /\ last.clamped /\ last.delta > 0
  /\ \E t \in 1..Len(tracks) : \E i \in 1..Len(tracks[t].clips) :
       LET clip == tracks[t].clips[i]
       IN /\ clip.offsetSamples + clip.durationSamples = clip.sourceDurationSamples
          /\ ClipWithinBounds(clip) /\ HasMinDuration(clip)
          /\ \A j \in 1..Len(tracks[t].clips) :
               tracks[t].clips[j].startSample # ClipEnd(clip)

\* C29: when stop() or pause() was the last request made while a play() call
\* was awaiting adapter.play, and adapter.play then resolves, the rest of
\* play() starts the time-update loop, sets isPlaying and emits play and
\* statechange: nothing in the engine tells a stale completion from a fresh one.
C29_StaleCompletionPlays ==
  [][(/\ last.op \in {"stop", "pause"}
      /\ pendingPlays # <<>>
      /\ last'.op = "play:resolved")
       => /\ ~isPlaying
          /\ isPlaying'
          /\ hasRAF => (animFrameId' # NoFrame /\ animFrameId' \in rafQueue')
          /\ emitted' = <<"play", "statechange">>]_vars

\* adapter.play resolved right after a stop(): the engine reports playing at
\* the position stop() reset, with a frame pending.
C29_PlayingAfterStop ==
  /\ last.op = "play:resolved" /\ last.previous = "stop"
  /\ hasAdapter /\ hasRAF
  /\ isPlaying
  /\ currentTime = 0
  /\ animFrameId \in rafQueue

\* How often event occurs in a log of emissions.
Occurrences(log, event) == Cardinality({i \in 1..Len(log) : log[i] = event})

\* C30: every completed play() with an adapter starts the time-update loop
\* once, in place of a loop already running: the one frame callback pending
\* afterwards is the one the engine remembers; at any time at most one frame
\* callback is pending, and a frame emits at most one timeupdate.
C30_OneLoop ==
  [][/\ Cardinality(rafQueue) <= 1
     /\ Cardinality(rafQueue') <= 1
     /\ (last'.op = "play:resolved" /\ hasAdapter /\ hasRAF)
          => rafQueue' = {animFrameId'} /\ animFrameId' # NoFrame
     /\ last'.op = "tick" => Occurrences(emitted', "timeupdate") <= 1]_vars

\* A second play() completed while the loop of the first was running: one
\* frame callback is pending, the one the engine remembers.
C30_SecondPlayOneFrame ==
  /\ last.op = "play:resolved" /\ last.previous = "play:resolved"
  /\ hasAdapter /\ hasRAF /\ ~disposed
  /\ isPlaying
  /\ rafQueue = {animFrameId}

SetOf(seq) == {seq[i] : i \in 1..Len(seq)}

\* C31: an emission calls the listeners that were registered when it began,
\* each once, whatever on() and off() calls the listeners make while it runs.
C31_EmissionOverSnapshot ==
  [][last'.op = "selectTrack"
       => /\ SetOf(emission'.called) = SetOf(registered)
          /\ Len(emission'.called) = Len(registered)]_vars

\* C32: play() once adapter.play has resolved emits play then statechange,
\* pause() emits pause then statechange, stop() emits stop then statechange,
\* and the listeners of both events read the new isPlaying; while play()
\* awaits the adapter, and when adapter.play rejects, nothing is emitted.
C32_LifecycleThenStateChange ==
  [][/\ last'.op = "play:resolved"
          => emitted' = <<"play", "statechange">> /\ last'.observed = <<TRUE, TRUE>>
     /\ last'.op = "pause"
          => emitted' = <<"pause", "statechange">> /\ last'.observed = <<FALSE, FALSE>>
     /\ last'.op = "stop"
          => emitted' = <<"stop", "statechange">> /\ last'.observed = <<FALSE, FALSE>>
     /\ last'.op \in {"play:awaiting", "play:rejected"}
          => emitted' = <<>> /\ isPlaying' = isPlaying]_vars

\* adapter.play resolved for the one play() awaiting it: play, then
\* statechange, reached listeners that read isPlaying as true.
C32_PlayEmittedAfterResolve ==
  /\ last.op = "play:resolved" /\ last.previous = "play:awaiting"
  /\ hasAdapter /\ pendingPlays = <<>>
  /\ emitted = <<"play", "statechange">>
  /\ last.observed = <<TRUE, TRUE>>
  /\ isPlaying

\* 0.1 seconds in samples at a clip's own sampleRate.
MinDurationAt(sampleRate) ==
  MathFloor((DEFAULT_MIN_DURATION_NUM * sampleRate) \div DEFAULT_MIN_DURATION_DEN)

HasMinDurationAtOwnRate(clip) == clip.durationSamples >= MinDurationAt(clip.sampleRate)

\* C33: trimClip and splitClip keep every clip at least floor(0.1 *
\* clip.sampleRate) samples long, the minimum duration at the clip's own
\* sampleRate, also when that is not the engine's sampleRate.
C33_MinDurationAtClipRate ==
  [][(/\ last'.op \in {"trimClip", "splitClip"}
      /\ EveryClip(tracks, HasMinDurationAtOwnRate))
       => EveryClip(tracks', HasMinDurationAtOwnRate)]_vars

\* The places, track and clip index, whose clip the step changed.
ChangedClips ==
  {p \in UNION {{<<t, i>> : i \in 1..Len(tracks[t].clips)} : t \in 1..Len(tracks)} :
     tracks'[p[1]].clips[p[2]] # tracks[p[1]].clips[p[2]]}

\* C34: moveClip and trimClip change at most one clip and nothing else of the
\* track list; the clip keeps its id, sampleRate and sourceDurationSamples; a
\* left trim keeps its end and startSample - offsetSamples, a right trim its
\* startSample and offsetSamples, a move its durationSamples and offsetSamples.
C34_EditFrame ==
  [][last'.op \in {"moveClip", "trimClip"} =>
       /\ Len(tracks') = Len(tracks)
       /\ \A t \in 1..Len(tracks) :
            /\ Len(tracks'[t].clips) = Len(tracks[t].clips)
            /\ [tracks'[t] EXCEPT !.clips = tracks[t].clips] = tracks[t]
       /\ Cardinality(ChangedClips) <= 1
       /\ \A p \in ChangedClips :
            LET a == tracks[p[1]].clips[p[2]]
                b == tracks'[p[1]].clips[p[2]]
            IN /\ b.id = a.id
               /\ b.sampleRate = a.sampleRate
               /\ b.sourceDurationSamples = a.sourceDurationSamples
               /\ last'.op = "moveClip" =>
                    /\ b.durationSamples = a.durationSamples
                    /\ b.offsetSamples = a.offsetSamples
               /\ last'.op = "trimClip" => last'.edge \in {"left", "right"}
               /\ last'.edge = "left" =>
                    /\ ClipEnd(b) = ClipEnd(a)
                    /\ b.startSample - b.offsetSamples = a.startSample - a.offsetSamples
               /\ last'.edge = "right" =>
                    /\ b.startSample = a.startSample
                    /\ b.offsetSamples = a.offsetSamples]_vars

\* A left trim inwards was applied in full to one of two clips of a track: the
\* clip starts later and reads its source from further in.
C34_LeftTrimInwards ==
  /\ last.op = "trimClip" /\ last.edge = "left" /\ last.delta > 0 /\ ~last.clamped
  /\ \E t \in 1..Len(tracks) :
       /\ Len(tracks[t].clips) = 2
       /\ \E i \in 1..2 : tracks[t].clips[i].offsetSamples >= last.delta

\* The optional fields both halves are to take from the clip as they are.
SharedOptionKeys == {"gain", "color", "audioBuffer", "waveformData"}

\* left and right are the halves C35 describes for clip.
HalvesInherit(clip, left, right) ==
  /\ Option(left, "fadeIn") = Option(clip, "fadeIn")
  /\ Option(left, "fadeOut") = Undefined
  /\ Option(right, "fadeOut") = Option(clip, "fadeOut")
  /\ Option(right, "fadeIn") = Undefined
  /\ \A half \in {left, right} :
       /\ half.sampleRate = clip.sampleRate
       /\ half.sourceDurationSamples = clip.sourceDurationSamples
       /\ \A k \in SharedOptionKeys : Option(half, k) = Option(clip, k)
  /\ IF "name" \in DOMAIN clip /\ clip.name # ""
     THEN /\ Option(left, "name") = Given(clip.name \o " (1)")
          /\ Option(right, "name") = Given(clip.name \o " (2)")
     ELSE Option(left, "name") = Undefined /\ Option(right, "name") = Undefined

\* C35: a split gives the left half the clip's fade-in and no fade-out, the
\* right half its fade-out and no fade-in, both halves its sampleRate,
\* sourceDurationSamples, gain, colour, audio reference and waveform
\* reference; the halves of a clip named N are named N (1) and N (2), those of
\* a clip without a name have none. Stated of every clip the engine holds and
\* every interior position.
C35_HalvesInheritFields ==
  \A t \in 1..Len(tracks) : \A i \in 1..Len(tracks[t].clips) :
    LET clip == tracks[t].clips[i]
    IN \A p \in SampleInputs :
         (clip.startSample < p /\ p < ClipEnd(clip))
           => LET halves == splitClipOp(clip, p, 0, 0)
              IN HalvesInherit(clip, halves.left, halves.right)

\* The engine split the clip named Vocals: it holds Vocals (1) with the
\* fade-in and no fade-out, then Vocals (2) with the fade-out and no fade-in,
\* both on the same audio and waveform data.
C35_VocalsSplit ==
  /\ last.op = "splitClip" /\ last.found /\ ~last.clamped
  /\ Len(tracks) = 1 /\ Len(tracks[1].clips) = 2
  /\ LET left == tracks[1].clips[1]
         right == tracks[1].clips[2]
     IN /\ Option(left, "name") = Given("Vocals (1)")
        /\ Option(right, "name") = Given("Vocals (2)")
        /\ Option(left, "fadeIn") = Given(FadeIn) /\ Option(left, "fadeOut") = Undefined
        /\ Option(right, "fadeOut") = Given(FadeOut) /\ Option(right, "fadeIn") = Undefined
        /\ left.audioBuffer = "buffer1" /\ right.audioBuffer = "buffer1"
        /\ left.waveformData = "peaks1" /\ right.waveformData = "peaks1"

\* C36: in the Tone adapter the completion callback of a playout that a later
\* setTracks replaced leaves isPlaying() as it is; the completion callback of
\* the playout of the current generation sets it to false.
C36_StaleCompletionIgnored ==
  [][last'.op = "adapter:complete" =>
       IF last'.delta = playoutGeneration
       THEN ~toneIsPlaying'
       ELSE toneIsPlaying' = toneIsPlaying]_vars

\* A playout replaced by setTracks completed after play() had started the new
\* one: isPlaying() is still true and the new playout has yet to complete.
C36_LateCompletionWhilePlaying ==
  /\ last.op = "adapter:complete" /\ ~last.found
  /\ last.delta < playoutGeneration
  /\ toneIsPlaying
  /\ playout /\ playoutGeneration \in startedPlayouts

\* C37: in every state of a constructed engine the zoom index is an index of
\* the zoom table, getState() reports the table entry at it as
\* samplesPerPixel, canZoomIn as zoomIndex > 0 and canZoomOut as zoomIndex <
\* length - 1; no step changes the table, a write by the caller to the array
\* it passed to the constructor included.
C37_ZoomStateConsistent ==
  /\ [](constructed =>
          /\ 0 <= zoomIndex /\ zoomIndex < Len(zoomLevels)
          /\ getStateZoom.zoomIndex = zoomIndex
          /\ getStateZoom.samplesPerPixel = Given(zoomLevels[zoomIndex + 1])
          /\ getStateZoom.canZoomIn = (zoomIndex > 0)
          /\ getStateZoom.canZoomOut = (zoomIndex < Len(zoomLevels) - 1))
  /\ [][zoomLevels' = zoomLevels]_vars

\* The caller emptied the array it had passed to the constructor: the engine
\* still has its table of several entries and an index into it.
C37_CallerEmptiedItsArray ==
  /\ last.op = "mutate:zoomLevels"
  /\ constructed
  /\ callerZoomLevels = Given(<<>>)
  /\ Len(zoomLevels) > 1
  /\ zoomIndex > 0

\* C38: once dispose() has been called, no engine method called later, nor the
\* rest of a play() that was awaiting the adapter, calls a method of the
\* adapter, requests a frame callback or sets isPlaying to true.
C38_QuietAfterDispose ==
  [][disposed =>
       /\ adapterCalls' = <<>>
       /\ rafQueue' \subseteq rafQueue
       /\ isPlaying' => isPlaying]_vars

\* C39: isPlaying changes only inside play(), pause() and stop(), also when a
\* timeupdate listener calls them from a frame; a frame in which no listener
\* called them only reads the adapter's time into currentTime and emits
\* timeupdate, never statechange; and the adapter finishing playback on its
\* own changes neither isPlaying nor the frame loop.
CalledPauseOrStop(log) == \E i \in 1..Len(log) : log[i] \in {"pause", "stop"}

FrameWithoutTransportCall ==
  last'.op = "tick" /\ ~CalledPauseOrStop(emitted')

C39_IsPlayingOnlyByTransport ==
  [][
      /\ (isPlaying' # isPlaying)
            => (\/ last'.op \in {"play:resolved", "pause", "stop"}
                \/ last'.op = "tick" /\ CalledPauseOrStop(emitted'))
      /\ FrameWithoutTransportCall
            => (/\ isPlaying' = isPlaying
                /\ emitted' \in {<<>>, <<"timeupdate">>}
                /\ adapterCalls' \in {<<>>, <<"getCurrentTime">>,
                                      <<"getCurrentTime", "dispose">>})
      /\ (last'.op = "adapter:finished")
            => (/\ isPlaying' = isPlaying
                /\ rafQueue' = rafQueue
                /\ animFrameId' = animFrameId
                /\ currentTime' = currentTime)
  ]_vars

\* The adapter finished by itself while the engine was playing: the engine is
\* still playing and its next frame is still requested.
C39_StillPlayingAfterAdapterFinished ==
  /\ last.op = "adapter:finished" /\ isPlaying
  /\ animFrameId # NoFrame /\ animFrameId \in rafQueue

\* C40: on an engine without an adapter the playback position is always on
\* the timeline, 0 <= currentTime <= duration, also after the timeline was
\* shortened behind a position that seek or play(startTime) had set.
C40_PositionOnTimeline ==
  ~hasAdapter => (0 <= currentTime /\ currentTime <= calculateDuration(tracks))

====
